---------------------------- MODULE Spec2Model ----------------------------
(***************************************************************************)
(* Model of the task dispatch core of nexus7: the per-agent circuit        *)
(* breaker and retry loop of ResilientOrchestrator, the agent directory    *)
(* (AgentRegistry), TaskRouter's candidate selection and scoring, the      *)
(* task table of TaskOrchestrator and the ReputationTracker.               *)
(*                                                                         *)
(* Numbers: times are milliseconds; reputation scores and router scores    *)
(* are fixed-point, in thousandths (1.0 is 1000).                          *)
(***************************************************************************)
EXTENDS Integers, Sequences, FiniteSets, TLC

VARIABLES
    now,             \* the clock read by Date.now() and by setTimeout, in ms
    circuitBreaker,  \* ResilientOrchestrator.circuitBreaker: agent -> state ("none": no entry)
    failureCount,    \* ResilientOrchestrator.failureCount: agent -> count (no entry reads as 0)
    timers,          \* pending setTimeout callbacks of recordAgentFailure: agent -> due times, FIFO
    cbLast,          \* history: the last breaker operation, its agent, the breaker state before it
    streak,          \* history: agent -> failures recorded since the breaker was closed with
                     \* count 0, no success in between (-1: not counting)
    openedAt,        \* history: per agent, when its breaker last went from not open to open
    agents,          \* AgentRegistry.agents: the directory, in Map insertion order
    decision,        \* the RoutingDecision the last findBestAgent call returned
    routedTask,      \* the task that call was given
    fallback,        \* the last findAlternativeAgent call: its task, the id it was told to
                     \* exclude, the RoutingDecision it returned
    reputation,      \* ReputationTracker.reputation: agent -> record, for the agents it knows
    repLast,         \* history: the last ReputationTracker operation and its arguments
    repResult,       \* what the last shouldQuarantine call returned
    tasks,           \* TaskOrchestrator.tasks: task id -> Task, for the tasks it knows
    jobs,            \* TaskOrchestrator.jobs: job id -> Job (job.tasks as task ids)
    orchLast,        \* history: the last TaskOrchestrator operation, its arguments, and
                     \* whether it threw
    exPc,            \* executeTask: idle, attempt (about to run an attempt), sleep (in the
                     \* backoff wait), returned, threw
    exTask,          \* executeTask: the task it was given
    exAttempt,       \* executeTask: the loop variable attempt
    exLastError,     \* executeTask: lastError ("null" or the error's kind)
    exResult,        \* executeTask: the value returned, or the error thrown
    exWake,          \* executeTask: when the pending sleep ends
    exLog,           \* history: per attempt made, its outcome and the wait that followed
    routes,          \* RoutingTable.routes: destination -> RouteEntry, for the stored ones
    rtResult,        \* what the last RoutingTable operation returned, as a set (empty:
                     \* nothing)
    rtLast,          \* history: the last RoutingTable operation and its arguments
    bufferSize,      \* FlowController.bufferSize, in bytes
    paused,          \* FlowController.paused
    fcLast,          \* history: the last FlowController operation, its size, what it returned
    state,           \* StateStore.state: key -> value, for the keys the Map holds
    version,         \* StateStore.version: key -> number, for the keys that Map holds
    ssResult,        \* what the last getState call returned ("undefined": nothing)
    applied,         \* what the last applyRemoteChange call returned
    listeners,       \* StateStore.listeners: the subscribed listeners, in insertion order
    notified,        \* the calls of listeners the last StateStore operation made, in order
    ssLast,          \* history: the last StateStore operation, its arguments, and for
                     \* applyRemoteChange what it returned
    ssWritten,       \* history: key -> the last operation that wrote or removed the key
    ssSeen,          \* history: key -> the highest version the key has had (0: none)
    healthCheckInterval, \* AgentLifecycle.healthCheckInterval: the timer's id, 0 for null
    cleanupInterval, \* ConnectionPool.cleanupInterval: the timer's id, 0 for null
    intervals,       \* the interval timers installed in the runtime: [id, callback, due]
    passes,          \* the performHealthChecks passes in progress: [agents, pos], the ids
                     \* of the agents the pass goes over and the one whose isHealthy it awaits
    lifecycleAgents, \* AgentLifecycle.agents: the agents' [id, status], in Map insertion order
    peerStore,       \* the StateStore of a second node: its [state, version]
    inFlight,        \* the change records on their way to the other node's applyRemoteChange
    writers,         \* history: the <<node, key>> pairs of the local writes made so far
    raced,           \* history: the keys a node wrote while the other node's write of the
                     \* key was on its way to it
    conns,           \* the MockConnection objects created so far: [remoteId, state,
                     \* messageQueue]; a handle is an object's position in the sequence
    connections,     \* ConnectionPool.connections: remoteId -> handle, for the ids the Map holds
    lastAccessTime,  \* ConnectionPool.lastAccessTime: [remoteId, time] in Map insertion order
    calls,           \* per caller, the asynchronous call it has in flight or made last:
                     \* [op, pc, remoteId, victim, handle, message]
    sent,            \* history: the messages for which a sendMessage call completed
                     \* without an error
    delivered        \* history: the messages the far end of a connection has read

cbVars == <<circuitBreaker, failureCount, timers>>

cbHist == <<cbLast, streak, openedAt>>

routerVars == <<decision, routedTask, fallback>>

repVars == <<reputation, repLast, repResult>>

orchVars == <<tasks, jobs>>

orchHist == <<orchLast>>

exVars == <<exPc, exTask, exAttempt, exLastError, exResult, exWake, exLog>>

rtVars == <<routes, rtResult, rtLast>>

fcVars == <<bufferSize, paused, fcLast>>

ssVars == <<state, version, ssResult, applied, listeners, notified, ssLast, ssWritten, ssSeen>>

replVars == <<peerStore, inFlight, writers, raced>>

\* the mesh around the routing table, the flow controller and the local state store
poolVars == <<conns, connections, lastAccessTime, calls>>

sendVars == <<sent, delivered>>

\* the periodic background loops
loopVars == <<healthCheckInterval, cleanupInterval, intervals, passes, lifecycleAgents>>

netVars == <<replVars, poolVars, sendVars, loopVars>>

meshVars == <<rtVars, fcVars, ssVars, netVars>>

vars == <<now, cbVars, cbHist, agents, routerVars, repVars, orchVars, orchHist, exVars,
         meshVars>>

\* what the operations of each component leave alone
NotBreaker == <<meshVars, agents, routerVars, repVars, orchVars, orchHist, exVars>>

NotRegistry == <<meshVars, now, cbVars, cbHist, routerVars, repVars, orchVars, orchHist, exVars>>

NotRouter == <<meshVars, now, cbVars, cbHist, agents, repVars, orchVars, orchHist, exVars>>

NotReputation == <<meshVars, now, cbVars, cbHist, agents, routerVars, orchVars, orchHist, exVars>>

NotOrchestrator == <<meshVars, now, cbVars, cbHist, agents, routerVars, repVars, exVars>>

\* the dispatch core, which the mesh components leave alone
NotNet == <<cbVars, cbHist, agents, routerVars, repVars, orchVars, orchHist, exVars, loopVars>>

\* what the routing table, the flow controller and the state store leave alone
NotMesh == <<NotNet, netVars>>

\* executeTask reads the directory and the breaker and writes the task table
NotExecute == <<meshVars, cbVars, cbHist, agents, routerVars, repVars, jobs, orchHist>>

-----------------------------------------------------------------------------
(* Bounds of the model *)

\* the clock advances in steps of resetTimeout / TicksPerTimeout
TicksPerTimeout == 2

\* the clock stops after this many steps
MaxTicks == 5

\* recordAgentFailure is not called for an agent whose counter has reached this
MaxFailureCount == 6

\* setState is not called for a key whose version has reached this
MaxVersion == 3

\* the keys of the state store
StateKeys == {"k1", "k2"}

\* PoolConfig.maxConnections as configured here, the MockConnection objects ever created,
\* the callers with a call of the pool in flight, and the clock of the pool
maxConnections == 2

MaxHandles == 3

CallerIds == {"g1", "g2"}

MaxPoolTime == 1

\* the messages a connection's queue takes
MaxQueued == 1

\* the listeners subscribing to the state store, and those of them that throw from
\* their callback
ListenerIds == {"l1", "l2"}

ThrowingListeners == {"l1"}

\* write is not called once the counter would pass this many MiB
MaxBuffered == 16

\* 2^20 bytes, the unit of the buffer sizes
MiB == 1024 * 1024

\* the routing table's clock advances in steps of ttl / RouteTicksPerTtl
RouteTicksPerTtl == 2

\* and stops after this many steps
MaxRouteTicks == 3

\* the clock of the periodic loops advances in steps of the health check interval and
\* stops after this many steps
MaxLoopTicks == 11

\* at most this many health check passes in progress
MaxPasses == 2

\* at most this many reset timers pending per agent
MaxTimers == 2

\* recordSuccess / recordFailure are not called for a record whose counter has reached this
MaxOutcomes == 3

AgentIds == {"a1", "a2"}

CBAgents == AgentIds

\* the ids generateId hands out, in this order
TaskIdOrder == <<"t1", "t2">>

JobIdOrder == <<"j1">>

-----------------------------------------------------------------------------
(* ResilientOrchestrator: circuit breaker *)

failureThreshold == 5

resetTimeout == 60000

\* circuitBreaker.get(agentId) || 'closed'
BreakerState(agentId) ==
    IF circuitBreaker[agentId] = "none" THEN "closed" ELSE circuitBreaker[agentId]

isCircuitOpen(agentId) == BreakerState(agentId) = "open"

RecordAgentFailure(agentId) ==
    LET count == failureCount[agentId] + 1 IN
    /\ failureCount[agentId] < MaxFailureCount
    /\ count >= failureThreshold => Len(timers[agentId]) < MaxTimers
    /\ failureCount' = [failureCount EXCEPT ![agentId] = count]
    /\ IF count >= failureThreshold
          THEN /\ circuitBreaker' = [circuitBreaker EXCEPT ![agentId] = "open"]
               /\ timers' = [timers EXCEPT ![agentId] = Append(@, now + resetTimeout)]
          ELSE UNCHANGED <<circuitBreaker, timers>>
    /\ UNCHANGED <<now, NotBreaker>>

\* the oldest pending reset timer of the agent has reached its time
TimerDue(agentId) ==
    IF timers[agentId] = <<>> THEN FALSE ELSE Head(timers[agentId]) <= now

\* the callback recordAgentFailure hands to setTimeout
FireResetTimer(agentId) ==
    /\ TimerDue(agentId)
    /\ circuitBreaker' = [circuitBreaker EXCEPT ![agentId] = "half-open"]
    /\ failureCount' = [failureCount EXCEPT ![agentId] = 0]
    /\ timers' = [timers EXCEPT ![agentId] = Tail(@)]
    /\ UNCHANGED <<now, NotBreaker>>

\* recordAgentSuccess closing every breaker that is not closed, open ones included
RecordAgentSuccessClosesOpen(agentId) ==
    /\ failureCount' = [failureCount EXCEPT ![agentId] = 0]
    /\ IF circuitBreaker[agentId] \in {"half-open", "open"}
          THEN circuitBreaker' = [circuitBreaker EXCEPT ![agentId] = "closed"]
          ELSE UNCHANGED circuitBreaker
    /\ UNCHANGED <<now, timers, NotBreaker>>

RecordAgentSuccess(agentId) ==
    /\ failureCount' = [failureCount EXCEPT ![agentId] = 0]
    /\ IF circuitBreaker[agentId] = "half-open"
          THEN circuitBreaker' = [circuitBreaker EXCEPT ![agentId] = "closed"]
          ELSE UNCHANGED circuitBreaker
    /\ UNCHANGED <<now, timers, NotBreaker>>

\* the history variables' update for a breaker operation
Observe(op, agentId, newStreak) ==
    /\ cbLast' = [op |-> op, agent |-> agentId, pre |-> BreakerState(agentId)]
    /\ streak' = [streak EXCEPT ![agentId] = newStreak]
    /\ openedAt' = IF BreakerState(agentId) # "open" /\ circuitBreaker'[agentId] = "open"
                      THEN [openedAt EXCEPT ![agentId] = now] ELSE openedAt

ObserveFailure(agentId) ==
    Observe("failure", agentId,
            IF streak[agentId] \in 0..(failureThreshold - 1)
               THEN streak[agentId] + 1 ELSE -1)

ObserveSuccess(agentId) ==
    Observe("success", agentId,
            IF BreakerState(agentId) \in {"closed", "half-open"} THEN 0 ELSE -1)

ObserveTimer(agentId) == Observe("timer", agentId, streak[agentId])

InitClock == now = 0

InitBreakerVars ==
    /\ circuitBreaker = [a \in CBAgents |-> "none"]
    /\ failureCount = [a \in CBAgents |-> 0]
    /\ timers = [a \in CBAgents |-> <<>>]
    /\ cbLast = [op |-> "none", agent |-> "none", pre |-> "closed"]
    /\ streak = [a \in CBAgents |-> 0]
    /\ openedAt = [a \in CBAgents |-> 0]

\* the breakers at time 0 after recordAgentFailure was called failureThreshold times
\* for each agent of some set: open, with the reset timer pending
InitOpenedBreakers ==
    /\ \E opened \in SUBSET CBAgents :
          /\ circuitBreaker = [a \in CBAgents |-> IF a \in opened THEN "open" ELSE "none"]
          /\ failureCount = [a \in CBAgents |-> IF a \in opened THEN failureThreshold ELSE 0]
          /\ timers = [a \in CBAgents |-> IF a \in opened THEN <<resetTimeout>> ELSE <<>>]
    /\ cbLast = [op |-> "none", agent |-> "none", pre |-> "closed"]
    /\ streak = [a \in CBAgents |-> -1]
    /\ openedAt = [a \in CBAgents |-> 0]

-----------------------------------------------------------------------------
(* AgentRegistry: the agent directory *)

\* position of the agent with this id in the directory, 0 when it has none
IndexOf(agentId) ==
    IF \E i \in 1..Len(agents) : agents[i].id = agentId
       THEN CHOOSE i \in 1..Len(agents) : agents[i].id = agentId
       ELSE 0

\* agents.has(agentId)
HasAgent(agentId) == IndexOf(agentId) # 0

\* Map.set: a new key goes last, a known key keeps its place
Register(agent) ==
    /\ agents' = IF HasAgent(agent.id)
                    THEN [agents EXCEPT ![IndexOf(agent.id)] = agent]
                    ELSE Append(agents, agent)
    /\ UNCHANGED NotRegistry

Unregister(agentId) ==
    /\ agents' = IF HasAgent(agentId)
                    THEN SelectSeq(agents, LAMBDA a : a.id # agentId)
                    ELSE agents
    /\ UNCHANGED NotRegistry

\* getAgent throws AGENT_NOT_FOUND for an unknown id: the call changes nothing
UpdateStatus(agentId, status) ==
    /\ agents' = IF HasAgent(agentId)
                    THEN [agents EXCEPT ![IndexOf(agentId)].status = status]
                    ELSE agents
    /\ UNCHANGED NotRegistry

\* updateReputation(agentId, delta), in thousandths: getAgent throws for an unknown id
UpdateReputation(agentId, delta) ==
    /\ agents' = IF HasAgent(agentId)
                    THEN [agents EXCEPT ![IndexOf(agentId)].reputationScore =
                             IF @ + delta > 1000 THEN 1000
                             ELSE IF @ + delta < 0 THEN 0 ELSE @ + delta]
                    ELSE agents
    /\ UNCHANGED NotRegistry

\* getAllAgents(): Array.from(agents.values())
getAllAgents == agents

-----------------------------------------------------------------------------
(* TaskRouter.  A task is [id, requiredType, requiredCapability], "" for a    *)
(* metadata field the task does not set.                                     *)

\* findBestAgent's null
NoDecision == [taskId |-> "none", agentId |-> "none", confidence |-> 0]

reputationFloor == 300

heartbeatWindow == 60000

hasCapability(agent, task) == task.requiredCapability \in agent.capabilities

\* findCandidateAgents leaving the capability to the score: no capability filter
findCandidateAgentsUnfiltered(task) ==
    LET online == SelectSeq(getAllAgents,
                      LAMBDA a : a.status = "online" /\ a.reputationScore > reputationFloor)
        typed == IF task.requiredType # ""
                    THEN SelectSeq(online, LAMBDA a : a.type = task.requiredType)
                    ELSE online
    IN  IF Len(online) = 0 THEN <<>> ELSE typed

findCandidateAgents(task) ==
    LET online == SelectSeq(getAllAgents,
                      LAMBDA a : a.status = "online" /\ a.reputationScore > reputationFloor)
        typed == IF task.requiredType # ""
                    THEN SelectSeq(online, LAMBDA a : a.type = task.requiredType)
                    ELSE online
        capable == IF task.requiredCapability # ""
                      THEN SelectSeq(typed, LAMBDA a : hasCapability(a, task))
                      ELSE typed
    IN  IF Len(online) = 0 THEN <<>> ELSE capable

Min(x, y) == IF x <= y THEN x ELSE y

Max(x, y) == IF x >= y THEN x ELSE y

\* score in thousandths; reputation * 0.4 is reputation * 4 / 10
scoreAgent(agent, task) ==
    LET base == 500 + (agent.reputationScore * 4) \div 10
        matched == base + 300
        withStatus == IF agent.status = "online" THEN matched + 200 ELSE matched
        withHeartbeat == IF now - agent.lastHeartbeat < heartbeatWindow
                            THEN withStatus + 100 ELSE withStatus
    IN  IF task.requiredCapability # "" /\ ~hasCapability(agent, task)
           THEN 0
           ELSE Min(1000, withHeartbeat)

\* Array.prototype.sort with (a, b) => b.score - a.score: descending and stable,
\* an element goes after the elements that score at least as much
RECURSIVE InsertByScore(_, _)
InsertByScore(sorted, e) ==
    IF sorted = <<>> THEN <<e>>
    ELSE IF Head(sorted).score >= e.score
            THEN <<Head(sorted)>> \o InsertByScore(Tail(sorted), e)
            ELSE <<e>> \o sorted

RECURSIVE SortByScore(_)
SortByScore(scored) ==
    IF scored = <<>> THEN <<>>
    ELSE InsertByScore(SortByScore(SubSeq(scored, 1, Len(scored) - 1)), scored[Len(scored)])

\* findBestAgent giving up on a single candidate
findBestAgentNeedsTwo(task) ==
    LET candidates == findCandidateAgents(task)
        scoredCandidates == [i \in 1..Len(candidates) |->
                                [agent |-> candidates[i], score |-> scoreAgent(candidates[i], task)]]
        best == Head(SortByScore(scoredCandidates))
    IN  IF Len(candidates) <= 1
           THEN NoDecision
           ELSE [taskId |-> task.id, agentId |-> best.agent.id, confidence |-> best.score]

findBestAgent(task) ==
    LET candidates == findCandidateAgents(task)
        scoredCandidates == [i \in 1..Len(candidates) |->
                                [agent |-> candidates[i], score |-> scoreAgent(candidates[i], task)]]
        best == Head(SortByScore(scoredCandidates))
    IN  IF Len(candidates) = 0
           THEN NoDecision
           ELSE [taskId |-> task.id, agentId |-> best.agent.id, confidence |-> best.score]

\* a caller asks the router for the best agent and keeps the answer
FindBestAgent(task) ==
    /\ decision' = findBestAgent(task)
    /\ routedTask' = task
    /\ UNCHANGED <<fallback, NotRouter>>

InitRegistry == agents = <<>>

InitRouterVars ==
    /\ decision = NoDecision
    /\ routedTask = [id |-> "none", requiredType |-> "", requiredCapability |-> ""]
    /\ fallback = [task |-> [id |-> "none", requiredType |-> "", requiredCapability |-> ""],
                   excludeAgentId |-> "none", decision |-> NoDecision]

-----------------------------------------------------------------------------
(* ReputationTracker.  A record is [score, successCount, failureCount], the    *)
(* score in thousandths.                                                     *)

REPUTATION_THRESHOLD_QUARANTINE == 300

REPUTATION_INCREMENT_SUCCESS == 100

REPUTATION_DECREMENT_FAILURE == 200

\* the default of initializeAgent's initialScore parameter
DefaultInitialScore == 1000

\* reputation.has(agentId)
HasRecord(agentId) == agentId \in DOMAIN reputation

\* reputation.set(agentId, record)
WithRecord(records, agentId, record) ==
    [a \in DOMAIN records \cup {agentId} |-> IF a = agentId THEN record ELSE records[a]]

\* initializeAgent storing the score it is given
initializeAgentUnclamped(records, agentId, initialScore) ==
    IF agentId \notin DOMAIN records
       THEN WithRecord(records, agentId,
                [score |-> initialScore, successCount |-> 0, failureCount |-> 0])
       ELSE records

\* the records after initializeAgent(agentId, initialScore)
initializeAgent(records, agentId, initialScore) ==
    IF agentId \notin DOMAIN records
       THEN WithRecord(records, agentId,
                [score |-> Max(0, Min(1000, initialScore)),
                 successCount |-> 0, failureCount |-> 0])
       ELSE records

\* the records after getOrCreateRecord(agentId); the record is records[agentId]
getOrCreateRecord(records, agentId) ==
    IF agentId \notin DOMAIN records
       THEN initializeAgent(records, agentId, DefaultInitialScore)
       ELSE records

InitializeAgent(agentId, initialScore) ==
    /\ reputation' = initializeAgent(reputation, agentId, initialScore)
    /\ UNCHANGED <<repResult, NotReputation>>

\* recordFailure taking the success increment off the score
RecordFailureSmallStep(agentId) ==
    LET records == getOrCreateRecord(reputation, agentId)
        record == records[agentId]
    IN  /\ record.failureCount < MaxOutcomes
        /\ reputation' = WithRecord(records, agentId,
               [record EXCEPT !.failureCount = @ + 1,
                              !.score = Max(0, @ - REPUTATION_INCREMENT_SUCCESS)])
        /\ UNCHANGED <<repResult, NotReputation>>

RecordSuccess(agentId) ==
    LET records == getOrCreateRecord(reputation, agentId)
        record == records[agentId]
    IN  /\ record.successCount < MaxOutcomes
        /\ reputation' = WithRecord(records, agentId,
               [record EXCEPT !.successCount = @ + 1,
                              !.score = Min(1000, @ + REPUTATION_INCREMENT_SUCCESS)])
        /\ UNCHANGED <<repResult, NotReputation>>

RecordFailure(agentId) ==
    LET records == getOrCreateRecord(reputation, agentId)
        record == records[agentId]
    IN  /\ record.failureCount < MaxOutcomes
        /\ reputation' = WithRecord(records, agentId,
               [record EXCEPT !.failureCount = @ + 1,
                              !.score = Max(0, @ - REPUTATION_DECREMENT_FAILURE)])
        /\ UNCHANGED <<repResult, NotReputation>>

\* getScore: the record's score, the record created if there was none
getScore(records, agentId) == getOrCreateRecord(records, agentId)[agentId].score

\* shouldQuarantine taking the threshold itself for a score below it
shouldQuarantineAtThreshold(records, agentId) ==
    getScore(records, agentId) <= REPUTATION_THRESHOLD_QUARANTINE

\* what shouldQuarantine(agentId) returns
shouldQuarantine(records, agentId) ==
    getScore(records, agentId) < REPUTATION_THRESHOLD_QUARANTINE

\* a shouldQuarantine call: getScore leaves the record it created in the Map
ShouldQuarantine(agentId) ==
    /\ repResult' = shouldQuarantine(reputation, agentId)
    /\ reputation' = getOrCreateRecord(reputation, agentId)
    /\ UNCHANGED NotReputation

\* a getScore call: the record getOrCreateRecord created stays in the Map
GetScore(agentId) ==
    /\ reputation' = getOrCreateRecord(reputation, agentId)
    /\ UNCHANGED <<repResult, NotReputation>>

\* what getReputation(agentId) returns: the record's score here, -1 for undefined
getReputation(records, agentId) ==
    IF agentId \in DOMAIN records THEN records[agentId].score ELSE -1

\* a getReputation call: reputation.get(agentId)
GetReputation(agentId) ==
    UNCHANGED <<reputation, repResult, NotReputation>>

\* the history variable's update for a tracker operation
ObserveReputation(op, agentId, arg) ==
    repLast' = [op |-> op, agent |-> agentId, arg |-> arg, fresh |-> ~HasRecord(agentId)]

\* an empty Map
InitReputation ==
    /\ reputation = [a \in {} |-> 0]
    /\ repLast = [op |-> "none", agent |-> "none", arg |-> 0, fresh |-> FALSE]
    /\ repResult = FALSE

-----------------------------------------------------------------------------
(* TaskRouter.findAlternativeAgent *)

\* findAlternativeAgent as it would be if it did not leave the excluded agent out
findAlternativeAgentAmongAll(task, excludeAgentId) ==
    LET candidates == findCandidateAgents(task)
    IN  IF Len(candidates) = 0
           THEN NoDecision
           ELSE [taskId |-> task.id, agentId |-> candidates[1].id, confidence |-> 500]

findAlternativeAgent(task, excludeAgentId) ==
    LET candidates == SelectSeq(findCandidateAgents(task), LAMBDA a : a.id # excludeAgentId)
    IN  IF Len(candidates) = 0
           THEN NoDecision
           ELSE [taskId |-> task.id, agentId |-> candidates[1].id, confidence |-> 500]

\* a caller asks the router for a fallback agent and keeps the answer
FindAlternativeAgent(task, excludeAgentId) ==
    /\ fallback' = [task |-> task, excludeAgentId |-> excludeAgentId,
                    decision |-> findAlternativeAgent(task, excludeAgentId)]
    /\ UNCHANGED <<decision, routedTask, NotRouter>>

-----------------------------------------------------------------------------
(* TaskOrchestrator.  A Task is [parentId, status, assignedAgentId,            *)
(* requiredType, requiredCapability]; a Job is [status, tasks, metrics], its   *)
(* tasks the ids of the Task objects it shares with the task table.            *)

\* generateId: an id no task (job) has yet
Range(seq) == {seq[i] : i \in 1..Len(seq)}

FreshIds(order, used) == SelectSeq(order, LAMBDA id : id \notin used)

CreateJob ==
    LET free == FreshIds(JobIdOrder, DOMAIN jobs) IN
    /\ free # <<>>
    /\ jobs' = [j \in DOMAIN jobs \cup {Head(free)} |->
                   IF j = Head(free)
                      THEN [status |-> "pending", tasks |-> <<>>,
                            metrics |-> [totalTasks |-> 0, completedTasks |-> 0,
                                         failedTasks |-> 0]]
                      ELSE jobs[j]]
    /\ UNCHANGED <<tasks, NotOrchestrator>>

\* decomposeTasks: getJob throws for an unknown job; each definition becomes a
\* pending task under the job, in order
DecomposeTasks(jobId, taskDefinitions) ==
    LET free == FreshIds(TaskIdOrder, DOMAIN tasks)
        n == Len(taskDefinitions)
        created == [i \in 1..n |-> free[i]]
    IN  /\ Len(free) >= n
        /\ IF jobId \in DOMAIN jobs
              THEN /\ tasks' = [t \in DOMAIN tasks \cup Range(created) |->
                                   IF t \in DOMAIN tasks THEN tasks[t]
                                   ELSE LET def == taskDefinitions[
                                                CHOOSE i \in 1..n : created[i] = t]
                                        IN  [parentId |-> jobId, status |-> "pending",
                                             assignedAgentId |-> "none",
                                             requiredType |-> def.requiredType,
                                             requiredCapability |-> def.requiredCapability]]
                   /\ jobs' = [jobs EXCEPT
                                  ![jobId].tasks = @ \o created,
                                  ![jobId].metrics.totalTasks = Len(jobs[jobId].tasks) + n]
              ELSE UNCHANGED <<tasks, jobs>>
        /\ UNCHANGED NotOrchestrator

\* what assignTask throws: getTask's INVALID_TASK, the registry's AGENT_NOT_FOUND,
\* or nothing ("ok")
assignTaskError(taskId, agentId) ==
    IF taskId \notin DOMAIN tasks THEN "INVALID_TASK"
    ELSE IF ~HasAgent(agentId) THEN "AGENT_NOT_FOUND"
    ELSE "ok"

\* the task table after a successful assignTask
assignTask(taskId, agentId) ==
    [tasks EXCEPT ![taskId].assignedAgentId = agentId, ![taskId].status = "queued"]

\* assignTask writing the task before it looks the agent up
AssignTaskBeforeAgentLookup(taskId, agentId) ==
    /\ tasks' = IF taskId \in DOMAIN tasks THEN assignTask(taskId, agentId) ELSE tasks
    /\ UNCHANGED <<jobs, NotOrchestrator>>

AssignTask(taskId, agentId) ==
    /\ tasks' = IF assignTaskError(taskId, agentId) = "ok"
                   THEN assignTask(taskId, agentId) ELSE tasks
    /\ UNCHANGED <<jobs, NotOrchestrator>>

\* getTask and getJob: the stored object, or INVALID_TASK thrown; neither writes
GetTask(taskId) == UNCHANGED <<tasks, jobs, NotOrchestrator>>

GetJob(jobId) == UNCHANGED <<tasks, jobs, NotOrchestrator>>

\* the number of the job's tasks that have the status
CountStatus(jobTasks, taskTable, status) ==
    Cardinality({i \in 1..Len(jobTasks) : taskTable[jobTasks[i]].status = status})

\* updateJobMetrics: both counters recomputed from the statuses of the job's tasks
updateJobMetrics(job, taskTable) ==
    [job EXCEPT !.metrics.completedTasks = CountStatus(job.tasks, taskTable, "completed"),
                !.metrics.failedTasks = CountStatus(job.tasks, taskTable, "failed")]

\* completeTask: getTask throws for an unknown task; the task becomes completed, its
\* job's counter is incremented and then the metrics are recomputed
CompleteTask(taskId) ==
    /\ IF taskId \in DOMAIN tasks
          THEN LET parent == tasks[taskId].parentId
                   done == [tasks EXCEPT ![taskId].status = "completed"]
                   counted == [jobs[parent] EXCEPT !.metrics.completedTasks = @ + 1]
               IN  /\ tasks' = done
                   /\ jobs' = [jobs EXCEPT ![parent] = updateJobMetrics(counted, done)]
          ELSE UNCHANGED <<tasks, jobs>>
    /\ UNCHANGED NotOrchestrator

\* failTask: the same with status failed and the failed counter
FailTask(taskId) ==
    /\ IF taskId \in DOMAIN tasks
          THEN LET parent == tasks[taskId].parentId
                   done == [tasks EXCEPT ![taskId].status = "failed"]
                   counted == [jobs[parent] EXCEPT !.metrics.failedTasks = @ + 1]
               IN  /\ tasks' = done
                   /\ jobs' = [jobs EXCEPT ![parent] = updateJobMetrics(counted, done)]
          ELSE UNCHANGED <<tasks, jobs>>
    /\ UNCHANGED NotOrchestrator

\* the history variable's update for an orchestrator operation
ObserveOrchestrator(op, taskId, agentId, threw) ==
    orchLast' = [op |-> op, taskId |-> taskId, agentId |-> agentId, jobId |-> "none",
                 threw |-> threw]

\* the same for an operation that is given a job
ObserveJobCall(op, jobId, threw) ==
    orchLast' = [op |-> op, taskId |-> "none", agentId |-> "none", jobId |-> jobId,
                 threw |-> threw]

InitOrchestrator ==
    /\ tasks = [t \in {} |-> 0]
    /\ jobs = [j \in {} |-> 0]
    /\ orchLast = [op |-> "none", taskId |-> "none", agentId |-> "none", jobId |-> "none",
                   threw |-> FALSE]

-----------------------------------------------------------------------------
(* ResilientOrchestrator.executeTask *)

maxAttempts == 3

\* the backoff with the exponent one too high
BackoffDelayFromAttempt(attempt) == Min(1000 * 2 ^ attempt, 10000)

\* Math.min(1000 * Math.pow(2, attempt - 1), 10000)
BackoffDelay(attempt) == Min(1000 * 2 ^ (attempt - 1), 10000)

\* the try block of one attempt: the agent chosen, or the error thrown
\* ("ok" with the agent when the assignment succeeds)
AttemptOutcome(task) ==
    LET best == findBestAgent(task)
        alternative == findAlternativeAgent(task, best.agentId)
        agentId == IF isCircuitOpen(best.agentId) THEN alternative.agentId ELSE best.agentId
    IN  IF best = NoDecision
           THEN [error |-> "No suitable agents found", agentId |-> "none"]
        ELSE IF isCircuitOpen(best.agentId) /\ alternative = NoDecision
           THEN [error |-> "No alternative agents available", agentId |-> "none"]
        ELSE [error |-> assignTaskError(task.id, agentId), agentId |-> agentId]

\* a caller calls executeTask(task)
ExecuteTaskCall(task) ==
    /\ exPc = "idle"
    /\ exPc' = "attempt"
    /\ exTask' = task
    /\ exAttempt' = 1
    /\ exLastError' = "null"
    /\ UNCHANGED <<exResult, exWake, exLog, now, tasks, NotExecute>>

\* the loop body keeping the first error instead of the last
ExecuteTaskAttemptKeepsFirstError ==
    LET outcome == AttemptOutcome(exTask)
        kept == IF exLastError = "null" THEN outcome.error ELSE exLastError
    IN
    /\ exPc = "attempt"
    /\ IF outcome.error = "ok"
          THEN /\ tasks' = assignTask(exTask.id, outcome.agentId)
               /\ exPc' = "returned"
               /\ exResult' = [status |-> "success", taskId |-> exTask.id,
                               agentId |-> outcome.agentId, error |-> "null"]
               /\ exLog' = Append(exLog, [outcome |-> "ok", delay |-> 0])
               /\ UNCHANGED <<exLastError, exWake>>
          ELSE /\ exLastError' = kept
               /\ IF exAttempt < maxAttempts
                     THEN /\ exPc' = "sleep"
                          /\ exWake' = now + BackoffDelay(exAttempt)
                          /\ exLog' = Append(exLog, [outcome |-> outcome.error,
                                                     delay |-> BackoffDelay(exAttempt)])
                          /\ UNCHANGED exResult
                     ELSE /\ exPc' = "threw"
                          /\ exResult' = [status |-> "error", taskId |-> exTask.id,
                                          agentId |-> "none", error |-> kept]
                          /\ exLog' = Append(exLog, [outcome |-> outcome.error, delay |-> 0])
                          /\ UNCHANGED exWake
               /\ UNCHANGED tasks
    /\ UNCHANGED <<exTask, exAttempt, now, NotExecute>>

\* one pass of the loop body: the try block, and the catch block when it throws;
\* after the last pass the loop ends and lastError is thrown
ExecuteTaskAttempt ==
    LET outcome == AttemptOutcome(exTask) IN
    /\ exPc = "attempt"
    /\ IF outcome.error = "ok"
          THEN /\ tasks' = assignTask(exTask.id, outcome.agentId)
               /\ exPc' = "returned"
               /\ exResult' = [status |-> "success", taskId |-> exTask.id,
                               agentId |-> outcome.agentId, error |-> "null"]
               /\ exLog' = Append(exLog, [outcome |-> "ok", delay |-> 0])
               /\ UNCHANGED <<exLastError, exWake>>
          ELSE /\ exLastError' = outcome.error
               /\ IF exAttempt < maxAttempts
                     THEN /\ exPc' = "sleep"
                          /\ exWake' = now + BackoffDelay(exAttempt)
                          /\ exLog' = Append(exLog, [outcome |-> outcome.error,
                                                     delay |-> BackoffDelay(exAttempt)])
                          /\ UNCHANGED exResult
                     ELSE /\ exPc' = "threw"
                          /\ exResult' = [status |-> "error", taskId |-> exTask.id,
                                          agentId |-> "none", error |-> outcome.error]
                          /\ exLog' = Append(exLog, [outcome |-> outcome.error, delay |-> 0])
                          /\ UNCHANGED exWake
               /\ UNCHANGED tasks
    /\ UNCHANGED <<exTask, exAttempt, now, NotExecute>>

\* the sleep's timer runs: the loop goes on with the next attempt
ExecuteTaskWake ==
    /\ exPc = "sleep"
    /\ exWake <= now
    /\ exPc' = "attempt"
    /\ exAttempt' = exAttempt + 1
    /\ UNCHANGED <<exTask, exLastError, exResult, exWake, exLog, now, tasks, NotExecute>>

InitExecute ==
    /\ exPc = "idle"
    /\ exTask = [id |-> "none", requiredType |-> "", requiredCapability |-> ""]
    /\ exAttempt = 0
    /\ exLastError = "null"
    /\ exResult = [status |-> "none", taskId |-> "none", agentId |-> "none", error |-> "null"]
    /\ exWake = 0
    /\ exLog = <<>>

-----------------------------------------------------------------------------
(* RoutingTable and NeuralMesh.registerPeer.  A RouteEntry is [destination,    *)
(* nextHop, distance, timestamp]; the Map is a function over the stored       *)
(* destinations (the order of its entries is not modelled; getAllRoutes is    *)
(* the set of the entries it returns).                                        *)

\* the default time to live of a route
ttl == 300000

\* the node the table belongs to (RoutingTable.nodeId, NeuralMesh.nodeId)
nodeId == "n0"

\* isExpired with the time to live counted as already over when it has just elapsed
isExpiredAtTtl(route) == now - route.timestamp >= ttl

isExpired(route) == now - route.timestamp > ttl

\* routes.delete(destination)
WithoutRoute(table, destination) == [d \in DOMAIN table \ {destination} |-> table[d]]

\* addRoute letting a route of equal distance replace the stored one
addRouteReplacesTies(table, destination, nextHop, distance) ==
    IF destination = nodeId THEN table
    ELSE IF destination \in DOMAIN table /\ table[destination].distance < distance
            THEN table
    ELSE [d \in DOMAIN table \cup {destination} |->
             IF d = destination
                THEN [destination |-> destination, nextHop |-> nextHop,
                      distance |-> distance, timestamp |-> now]
                ELSE table[d]]

\* addRoute storing routes to every destination, the node itself included
addRouteToAnyone(table, destination, nextHop, distance) ==
    IF destination \in DOMAIN table /\ table[destination].distance <= distance THEN table
    ELSE [d \in DOMAIN table \cup {destination} |->
             IF d = destination
                THEN [destination |-> destination, nextHop |-> nextHop,
                      distance |-> distance, timestamp |-> now]
                ELSE table[d]]

\* the table after addRoute(destination, nextHop, distance)
addRoute(table, destination, nextHop, distance) ==
    IF destination = nodeId THEN table
    ELSE IF destination \in DOMAIN table /\ table[destination].distance <= distance
            THEN table
    ELSE [d \in DOMAIN table \cup {destination} |->
             IF d = destination
                THEN [destination |-> destination, nextHop |-> nextHop,
                      distance |-> distance, timestamp |-> now]
                ELSE table[d]]

AddRoute(destination, nextHop, distance) ==
    /\ routes' = addRoute(routes, destination, nextHop, distance)
    /\ rtResult' = {}
    /\ UNCHANGED <<now, NotMesh, fcVars, ssVars>>

\* NeuralMesh.registerPeer: a route of distance 1 through the peer itself
RegisterPeer(peerId) == AddRoute(peerId, peerId, 1)

\* getRoute: an expired entry is deleted and nothing is returned
GetRoute(destination) ==
    /\ IF destination \in DOMAIN routes
          THEN IF isExpired(routes[destination])
                  THEN /\ routes' = WithoutRoute(routes, destination)
                       /\ rtResult' = {}
                  ELSE /\ rtResult' = {routes[destination]}
                       /\ UNCHANGED routes
          ELSE /\ rtResult' = {}
               /\ UNCHANGED routes
    /\ UNCHANGED <<now, NotMesh, fcVars, ssVars>>

\* what getNextHop does to the table: getRoute(destination)?.nextHop
getNextHop(destination) ==
    IF destination \in DOMAIN routes
      THEN IF isExpired(routes[destination])
              THEN /\ routes' = WithoutRoute(routes, destination)
                   /\ rtResult' = {}
              ELSE /\ rtResult' = {routes[destination].nextHop}
                   /\ UNCHANGED routes
      ELSE /\ rtResult' = {}
           /\ UNCHANGED routes

GetNextHop(destination) ==
    /\ getNextHop(destination)
    /\ UNCHANGED <<now, NotMesh, fcVars, ssVars>>

RemoveRoute(destination) ==
    /\ routes' = WithoutRoute(routes, destination)
    /\ rtResult' = {}
    /\ UNCHANGED <<now, NotMesh, fcVars, ssVars>>

\* the entries getAllRoutes returns
getAllRoutes == {routes[d] : d \in {x \in DOMAIN routes : ~isExpired(routes[x])}}

\* the next hops getDirectNeighbors returns
getDirectNeighbors == {r.nextHop : r \in {x \in getAllRoutes : x.distance = 1}}

GetAllRoutes ==
    /\ rtResult' = getAllRoutes
    /\ UNCHANGED <<routes, now, NotMesh, fcVars, ssVars>>

GetDirectNeighbors ==
    /\ rtResult' = getDirectNeighbors
    /\ UNCHANGED <<routes, now, NotMesh, fcVars, ssVars>>

\* cleanup: every expired entry is deleted
Cleanup ==
    /\ routes' = [d \in {x \in DOMAIN routes : ~isExpired(routes[x])} |-> routes[d]]
    /\ rtResult' = {}
    /\ UNCHANGED <<now, NotMesh, fcVars, ssVars>>

Clear ==
    /\ routes' = [d \in {} |-> 0]
    /\ rtResult' = {}
    /\ UNCHANGED <<now, NotMesh, fcVars, ssVars>>

\* the history variable's update for a routing table operation (stored: the distance
\* of the route the table held for the destination before it, 0 for none)
ObserveRouting(op, destination, nextHop, distance) ==
    rtLast' = [op |-> op, destination |-> destination, nextHop |-> nextHop,
               distance |-> distance,
               stored |-> IF destination \in DOMAIN routes
                             THEN routes[destination].distance ELSE 0]

InitRouting ==
    /\ routes = [d \in {} |-> 0]
    /\ rtResult = {}
    /\ rtLast = [op |-> "none", destination |-> "none", nextHop |-> "none", distance |-> 0,
                 stored |-> 0]

-----------------------------------------------------------------------------
(* FlowController, with the configuration its constructor defaults to *)

\* config.maxBufferSize, in bytes
maxBufferSize == 10 * 1024 * 1024

\* config.highWaterMark and config.lowWaterMark, in percent
highWaterMark == 80

lowWaterMark == 20

\* the two levels write and drain compare the counter with
HighWaterLevel == (maxBufferSize * highWaterMark) \div 100

LowWaterLevel == (maxBufferSize * lowWaterMark) \div 100

\* what write(dataSize) does to the controller: false only from the call that pauses it
write(dataSize) ==
    LET buffered == bufferSize + dataSize IN
    /\ buffered <= MaxBuffered * MiB
    /\ bufferSize' = buffered
    /\ IF ~paused /\ buffered > HighWaterLevel
          THEN paused' = TRUE /\ fcLast' = [op |-> "write", size |-> dataSize, result |-> FALSE]
          ELSE UNCHANGED paused
               /\ fcLast' = [op |-> "write", size |-> dataSize, result |-> TRUE]

Write(dataSize) ==
    /\ write(dataSize)
    /\ UNCHANGED <<now, NotMesh, rtVars, ssVars>>

\* drain as it would be if it resumed below the high-water level
DrainResumesBelowHigh(dataSize) ==
    LET buffered == Max(0, bufferSize - dataSize) IN
    /\ bufferSize' = buffered
    /\ IF paused /\ buffered < HighWaterLevel
          THEN paused' = FALSE /\ fcLast' = [op |-> "drain", size |-> dataSize, result |-> TRUE]
          ELSE UNCHANGED paused
               /\ fcLast' = [op |-> "drain", size |-> dataSize, result |-> paused]
    /\ UNCHANGED <<now, NotMesh, rtVars, ssVars>>

\* drain(dataSize): true from the call that resumes, otherwise the paused flag
Drain(dataSize) ==
    LET buffered == Max(0, bufferSize - dataSize) IN
    /\ bufferSize' = buffered
    /\ IF paused /\ buffered < LowWaterLevel
          THEN paused' = FALSE /\ fcLast' = [op |-> "drain", size |-> dataSize, result |-> TRUE]
          ELSE UNCHANGED paused
               /\ fcLast' = [op |-> "drain", size |-> dataSize, result |-> paused]
    /\ UNCHANGED <<now, NotMesh, rtVars, ssVars>>

\* reset()
Reset ==
    /\ bufferSize' = 0
    /\ paused' = FALSE
    /\ fcLast' = [op |-> "reset", size |-> 0, result |-> FALSE]
    /\ UNCHANGED <<now, NotMesh, rtVars, ssVars>>

InitFlow ==
    /\ bufferSize = 0
    /\ paused = FALSE
    /\ fcLast = [op |-> "none", size |-> 0, result |-> FALSE]

-----------------------------------------------------------------------------
(* StateStore.  A value is a string, "undefined" for JavaScript's undefined.   *)
(* A listener is called with the change record and returns or throws; it       *)
(* calls nothing of the store from inside its callback.                        *)

\* the window in which applyRemoteChange takes a change for recent
freshnessWindow == 60000

\* what the store's operations leave alone
NotStore == <<now, NotMesh, rtVars, fcVars>>

\* map.set(key, value)
WithKey(map, key, value) ==
    [k \in DOMAIN map \cup {key} |-> IF k = key THEN value ELSE map[k]]

\* map.delete(key)
WithoutKey(map, key) == [k \in DOMAIN map \ {key} |-> map[k]]

\* state.get(key)
getState(key) == IF key \in DOMAIN state THEN state[key] ELSE "undefined"

\* version.get(key) || 0
currentVersion(key) == IF key \in DOMAIN version THEN version[key] ELSE 0

\* the StateChange record setState and deleteState build
StateChange(key, oldValue, newValue) ==
    [key |-> key, oldValue |-> oldValue, newValue |-> newValue, timestamp |-> now,
     source |-> nodeId]

\* notifyListeners without the try/catch: the first listener that throws ends the loop
RECURSIVE notifyListenersUnguarded(_, _)
notifyListenersUnguarded(subscribed, change) ==
    IF subscribed = <<>> THEN <<>>
    ELSE IF Head(subscribed) \in ThrowingListeners
            THEN <<[listener |-> Head(subscribed), change |-> change]>>
    ELSE <<[listener |-> Head(subscribed), change |-> change]>>
             \o notifyListenersUnguarded(Tail(subscribed), change)

\* notifyListeners: the calls made, one per subscribed listener in insertion order; what
\* a listener throws is caught and logged, and the loop goes on
RECURSIVE notifyListeners(_, _)
notifyListeners(subscribed, change) ==
    IF subscribed = <<>> THEN <<>>
    ELSE <<[listener |-> Head(subscribed), change |-> change]>>
             \o notifyListeners(Tail(subscribed), change)

\* what setState(key, value) does to the store
setState(key, value) ==
    /\ currentVersion(key) < MaxVersion
    /\ state' = WithKey(state, key, value)
    /\ version' = WithKey(version, key, currentVersion(key) + 1)
    /\ notified' = notifyListeners(listeners, StateChange(key, getState(key), value))

SetState(key, value) ==
    /\ setState(key, value)
    /\ UNCHANGED <<ssResult, applied, listeners, NotStore>>

GetState(key) ==
    /\ ssResult' = getState(key)
    /\ notified' = <<>>
    /\ UNCHANGED <<state, version, applied, listeners, NotStore>>

\* deleteState removing the version and leaving the value
DeleteStateKeepsValue(key) ==
    /\ IF getState(key) = "undefined"
          THEN UNCHANGED <<state, version>> /\ notified' = <<>>
          ELSE /\ UNCHANGED state
               /\ version' = WithoutKey(version, key)
               /\ notified' = notifyListeners(listeners,
                                  StateChange(key, getState(key), "undefined"))
    /\ UNCHANGED <<ssResult, applied, listeners, NotStore>>

\* deleteState: nothing happens for a key whose value reads as undefined
DeleteState(key) ==
    /\ IF getState(key) = "undefined"
          THEN UNCHANGED <<state, version>> /\ notified' = <<>>
          ELSE /\ state' = WithoutKey(state, key)
               /\ version' = WithoutKey(version, key)
               /\ notified' = notifyListeners(listeners,
                                  StateChange(key, getState(key), "undefined"))
    /\ UNCHANGED <<ssResult, applied, listeners, NotStore>>

\* the freshness test taking a change exactly one window old for recent
isRecentInclusive(change) == change.timestamp >= now - freshnessWindow

\* whether applyRemoteChange accepts the change
isRecent(change) == change.timestamp > now - freshnessWindow

\* what applyRemoteChange(change) does to the store: a recent change goes through setState
applyRemoteChange(change) ==
    IF isRecent(change)
      THEN /\ setState(change.key, change.newValue)
           /\ applied' = TRUE
      ELSE /\ applied' = FALSE
           /\ notified' = <<>>
           /\ UNCHANGED <<state, version>>

ApplyRemoteChange(change) ==
    /\ applyRemoteChange(change)
    /\ UNCHANGED <<ssResult, listeners, NotStore>>

\* onChange(listener): a Set holds a listener once
OnChange(listener) ==
    /\ listeners' = IF listener \in Range(listeners) THEN listeners
                    ELSE Append(listeners, listener)
    /\ notified' = <<>>
    /\ UNCHANGED <<state, version, ssResult, applied, NotStore>>

\* the unsubscribe function onChange returned for the listener
Unsubscribe(listener) ==
    /\ listeners' = SelectSeq(listeners, LAMBDA l : l # listener)
    /\ notified' = <<>>
    /\ UNCHANGED <<state, version, ssResult, applied, NotStore>>

\* clear()
ClearState ==
    /\ state' = [k \in {} |-> 0]
    /\ version' = [k \in {} |-> 0]
    /\ notified' = <<>>
    /\ UNCHANGED <<ssResult, applied, listeners, NotStore>>

\* the history variables' update for a store operation; wrote: the operation went
\* through setState
ObserveStore(op, key, value, timestamp, wrote) ==
    /\ ssLast' = [op |-> op, key |-> key, value |-> value, timestamp |-> timestamp,
                  accepted |-> wrote]
    /\ ssWritten' =
          IF wrote THEN [ssWritten EXCEPT ![key] = [op |-> "setState", value |-> value]]
          ELSE IF op = "deleteState"
                  THEN [ssWritten EXCEPT ![key] = [op |-> "deleteState", value |-> "undefined"]]
          ELSE IF op = "clear"
                  THEN [k \in StateKeys |-> [op |-> "clear", value |-> "undefined"]]
          ELSE ssWritten
    /\ ssSeen' = [k \in StateKeys |->
                     IF k \in DOMAIN version' THEN Max(ssSeen[k], version'[k]) ELSE ssSeen[k]]

InitStore ==
    /\ state = [k \in {} |-> 0]
    /\ version = [k \in {} |-> 0]
    /\ ssResult = "undefined"
    /\ applied = FALSE
    /\ listeners = <<>>
    /\ notified = <<>>
    /\ ssLast = [op |-> "none", key |-> "none", value |-> "undefined", timestamp |-> 0,
                 accepted |-> FALSE]
    /\ ssWritten = [k \in StateKeys |-> [op |-> "none", value |-> "undefined"]]
    /\ ssSeen = [k \in StateKeys |-> 0]

-----------------------------------------------------------------------------
(* Two nodes replicating their state stores.  The local node is the store     *)
(* above; the second node runs the same StateStore code on its own Maps.  The  *)
(* change record of each local write travels to the other node, which hands    *)
(* it to applyRemoteChange.                                                    *)

peerId == "n1"

\* setState on a store given as [state, version]
setStateIn(store, key, value) ==
    [state |-> WithKey(store.state, key, value),
     version |-> WithKey(store.version, key,
                         (IF key \in DOMAIN store.version THEN store.version[key] ELSE 0) + 1)]

\* applyRemoteChange on a store given as [state, version]
applyRemoteChangeIn(store, change) ==
    IF isRecent(change) THEN setStateIn(store, change.key, change.newValue) ELSE store

\* state.get(key) on the second node
peerState(key) ==
    IF key \in DOMAIN peerStore.state THEN peerStore.state[key] ELSE "undefined"

\* the change record of a write, addressed to the other node
Outgoing(to, key, value) == [to |-> to, key |-> key, newValue |-> value, timestamp |-> now]

\* whether a write of the key by the other node is on its way to the node
Incoming(node, key) == \E m \in inFlight : m.to = node /\ m.key = key

\* the local node writes a key it has not written yet
NodeWrite(key, value) ==
    /\ <<nodeId, key>> \notin writers
    /\ setState(key, value)
    /\ inFlight' = inFlight \cup {Outgoing(peerId, key, value)}
    /\ writers' = writers \cup {<<nodeId, key>>}
    /\ raced' = IF Incoming(nodeId, key) THEN raced \cup {key} ELSE raced
    /\ UNCHANGED <<peerStore, ssResult, applied, listeners, now, NotNet, rtVars, fcVars,
                   poolVars, sendVars>>

\* the second node writes a key it has not written yet
PeerWrite(key, value) ==
    /\ <<peerId, key>> \notin writers
    /\ peerStore' = setStateIn(peerStore, key, value)
    /\ inFlight' = inFlight \cup {Outgoing(nodeId, key, value)}
    /\ writers' = writers \cup {<<peerId, key>>}
    /\ raced' = IF Incoming(peerId, key) THEN raced \cup {key} ELSE raced
    /\ UNCHANGED <<ssVars, now, NotNet, rtVars, fcVars, poolVars, sendVars>>

\* a change record reaches the local node's applyRemoteChange
DeliverToNode(m) ==
    /\ m \in inFlight /\ m.to = nodeId
    /\ applyRemoteChange(m)
    /\ inFlight' = inFlight \ {m}
    /\ UNCHANGED <<peerStore, writers, raced, ssResult, listeners, now, NotNet, rtVars,
                   fcVars, poolVars, sendVars>>

\* a change record reaches the second node's applyRemoteChange
DeliverToPeer(m) ==
    /\ m \in inFlight /\ m.to = peerId
    /\ peerStore' = applyRemoteChangeIn(peerStore, m)
    /\ inFlight' = inFlight \ {m}
    /\ UNCHANGED <<writers, raced, ssVars, now, NotNet, rtVars, fcVars, poolVars, sendVars>>

InitReplication ==
    /\ peerStore = [state |-> [k \in {} |-> 0], version |-> [k \in {} |-> 0]]
    /\ inFlight = {}
    /\ writers = {}
    /\ raced = {}

-----------------------------------------------------------------------------
(* ConnectionPool over MockConnection.  An asynchronous call runs to its next  *)
(* await in one step and is resumed in a later one; the calls of different     *)
(* callers interleave at the awaits.  Awaits between which the call touches     *)
(* nothing of the pool are taken in one step.                                  *)

NoHandle == 0

\* what the pool's operations leave alone
NotPool == <<now, NotNet, rtVars, fcVars, ssVars, replVars, sendVars>>

NoMessage == [id |-> "none", to |-> "none", size |-> 0]

NoCall ==
    [op |-> "none", pc |-> "idle", remoteId |-> "none", victim |-> "none",
     handle |-> NoHandle, message |-> NoMessage]

\* lastAccessTime.set(remoteId, time): a key the Map holds keeps its place
SetAccess(accesses, remoteId, time) ==
    IF \E i \in 1..Len(accesses) : accesses[i].remoteId = remoteId
      THEN [i \in 1..Len(accesses) |->
              IF accesses[i].remoteId = remoteId
                THEN [remoteId |-> remoteId, time |-> time] ELSE accesses[i]]
      ELSE Append(accesses, [remoteId |-> remoteId, time |-> time])

\* lastAccessTime.delete(remoteId)
DeleteAccess(accesses, remoteId) == SelectSeq(accesses, LAMBDA a : a.remoteId # remoteId)

\* the loop of evictIdleConnection: the first entry, in Map order, with the least time
\* below the starting oldestTime; "null" when no entry is below it
RECURSIVE oldestIdle(_, _, _)
oldestIdle(accesses, oldestRemoteId, oldestTime) ==
    IF accesses = <<>> THEN oldestRemoteId
    ELSE IF Head(accesses).time < oldestTime
            THEN oldestIdle(Tail(accesses), Head(accesses).remoteId, Head(accesses).time)
    ELSE oldestIdle(Tail(accesses), oldestRemoteId, oldestTime)

\* connections.size
poolSize == Cardinality(DOMAIN connections)

\* MockConnection.isConnected()
isConnected(handle) == conns[handle].state = "connected"

\* MockConnection.disconnect() on the object
Disconnected(conn) == [conn EXCEPT !.state = "disconnected", !.messageQueue = <<>>]

\* new MockConnection(remoteId) followed by connect()
NewConnection(remoteId) ==
    [remoteId |-> remoteId, state |-> "connected", messageQueue |-> <<>>]

\* the call's record once getConnection has returned the handle
Returned(call, handle) ==
    [call EXCEPT !.pc = IF call.op = "sendMessage" THEN "gotConnection" ELSE "returned",
                 !.victim = "none", !.handle = handle]

\* the call's record once closeConnection has returned
Closed(call) == [NoCall EXCEPT !.op = call.op, !.pc = "returned"]

\* getConnection from `new MockConnection` up to the await of connect()
CreateConnection(c, call) ==
    /\ Len(conns) < MaxHandles
    /\ conns' = Append(conns, NewConnection(call.remoteId))
    /\ calls' = [calls EXCEPT ![c] = [call EXCEPT !.pc = "connecting",
                                                  !.handle = Len(conns) + 1]]

\* closeConnection up to the await of disconnect(); nothing for an id the Map lacks
closeConnection(c, call, remoteId) ==
    IF remoteId \in DOMAIN connections
      THEN /\ conns' = [conns EXCEPT ![connections[remoteId]] = Disconnected(@)]
           /\ calls' = [calls EXCEPT ![c] = [call EXCEPT !.pc = "closing",
                                                         !.victim = remoteId]]
      ELSE /\ calls' = [calls EXCEPT ![c] = IF call.op = "closeConnection" THEN Closed(call)
                                            ELSE [call EXCEPT !.pc = "evicted"]]
           /\ UNCHANGED conns

\* evictIdleConnection up to its await
evictIdleConnection(c, call) ==
    LET oldestRemoteId == oldestIdle(lastAccessTime, "null", now) IN
    IF oldestRemoteId # "null"
      THEN closeConnection(c, call, oldestRemoteId)
      ELSE /\ calls' = [calls EXCEPT ![c] = [call EXCEPT !.pc = "evicted"]]
           /\ UNCHANGED conns

\* getConnection(remoteId) up to its first await, or to its return for a live connection
getConnection(c, call) ==
    LET existing == IF call.remoteId \in DOMAIN connections
                      THEN connections[call.remoteId] ELSE NoHandle
    IN
    IF existing # NoHandle /\ isConnected(existing)
      THEN /\ lastAccessTime' = SetAccess(lastAccessTime, call.remoteId, now)
           /\ calls' = [calls EXCEPT ![c] = Returned(call, existing)]
           /\ UNCHANGED <<conns, connections>>
      ELSE /\ IF poolSize >= maxConnections
                THEN evictIdleConnection(c, call)
                ELSE CreateConnection(c, call)
           /\ UNCHANGED <<connections, lastAccessTime>>

\* a caller with no call in flight
Free(c) == calls[c].pc \in {"idle", "returned", "threw"}

\* a caller calls getConnection(remoteId)
GetConnection(c, remoteId) ==
    /\ Free(c)
    /\ getConnection(c, [NoCall EXCEPT !.op = "getConnection", !.remoteId = remoteId])
    /\ UNCHANGED <<NotPool>>

\* a caller calls closeConnection(remoteId)
CloseConnection(c, remoteId) ==
    /\ Free(c)
    /\ closeConnection(c, [NoCall EXCEPT !.op = "closeConnection", !.remoteId = remoteId],
                       remoteId)
    /\ UNCHANGED <<connections, lastAccessTime, NotPool>>

\* closeConnection after the await of disconnect(): the id leaves both Maps; a
\* getConnection that was evicting goes on to create its connection
AfterDisconnect(c) ==
    /\ calls[c].pc = "closing"
    /\ connections' = WithoutKey(connections, calls[c].victim)
    /\ lastAccessTime' = DeleteAccess(lastAccessTime, calls[c].victim)
    /\ IF calls[c].op = "closeConnection"
          THEN /\ calls' = [calls EXCEPT ![c] = Closed(calls[c])]
               /\ UNCHANGED conns
          ELSE CreateConnection(c, calls[c])
    /\ UNCHANGED <<NotPool>>

\* getConnection after an evictIdleConnection that closed nothing
AfterEvict(c) ==
    /\ calls[c].pc = "evicted"
    /\ CreateConnection(c, calls[c])
    /\ UNCHANGED <<connections, lastAccessTime, NotPool>>

\* getConnection after the await of connect(): the connection enters the pool
AfterConnect(c) ==
    /\ calls[c].pc = "connecting"
    /\ connections' = WithKey(connections, calls[c].remoteId, calls[c].handle)
    /\ lastAccessTime' = SetAccess(lastAccessTime, calls[c].remoteId, now)
    /\ calls' = [calls EXCEPT ![c] = Returned(calls[c], calls[c].handle)]
    /\ UNCHANGED <<conns, NotPool>>

\* releaseConnection(remoteId)
ReleaseConnection(remoteId) ==
    /\ lastAccessTime' = SetAccess(lastAccessTime, remoteId, now)
    /\ UNCHANGED <<conns, connections, calls, NotPool>>

InitPool ==
    /\ conns = <<>>
    /\ connections = [r \in {} |-> NoHandle]
    /\ lastAccessTime = <<>>
    /\ calls = [c \in CallerIds |-> NoCall]

-----------------------------------------------------------------------------
(* NeuralMesh.sendMessage.  A message is [id, to, size]: size is the length of  *)
(* its serialized form, and serializing it does not throw.  The far end of a    *)
(* connection reads the messages that sit in the connection's messageQueue.     *)

\* MockConnection.send on the object
Queued(conn, messageId) == [conn EXCEPT !.messageQueue = Append(@, messageId)]

\* the call's record once sendMessage has returned
Sent(call) == [NoCall EXCEPT !.op = call.op, !.pc = "returned", !.message = call.message]

\* sendMessage up to the await of getConnection: a message without destination and a
\* destination without route make it throw
SendMessage(c, message) ==
    /\ Free(c)
    /\ IF message.to = "none"
          THEN /\ calls' = [calls EXCEPT ![c] = [NoCall EXCEPT !.op = "sendMessage",
                                                               !.pc = "threw",
                                                               !.message = message]]
               /\ UNCHANGED <<routes, rtResult, conns, connections, lastAccessTime>>
          ELSE /\ getNextHop(message.to)
               /\ IF rtResult' = {}
                     THEN /\ calls' = [calls EXCEPT ![c] =
                                         [NoCall EXCEPT !.op = "sendMessage", !.pc = "threw",
                                                        !.message = message]]
                          /\ UNCHANGED <<conns, connections, lastAccessTime>>
                     ELSE getConnection(c, [NoCall EXCEPT
                                              !.op = "sendMessage",
                                              !.remoteId = CHOOSE hop \in rtResult' : TRUE,
                                              !.message = message])
    /\ UNCHANGED <<rtLast, now, NotNet, fcVars, ssVars, replVars, sendVars>>

\* sendMessage from the return of getConnection on: the serialized length goes to
\* write, whose result is only logged, and the message to connection.send, which
\* throws on a connection that is not connected
AfterGetConnection(c) ==
    LET call == calls[c]
        message == call.message
    IN
    /\ call.pc = "gotConnection"
    /\ write(message.size)
    /\ IF isConnected(call.handle)
          THEN /\ Len(conns[call.handle].messageQueue) < MaxQueued
               /\ conns' = [conns EXCEPT ![call.handle] = Queued(@, message.id)]
               /\ calls' = [calls EXCEPT ![c] = Sent(call)]
               /\ sent' = sent \cup {message.id}
          ELSE /\ calls' = [calls EXCEPT ![c] = [Sent(call) EXCEPT !.pc = "threw"]]
               /\ UNCHANGED <<conns, sent>>
    /\ UNCHANGED <<connections, lastAccessTime, delivered, now, NotNet, rtVars, ssVars,
                   replVars>>

\* the far end of a connected connection reads the messages queued on it
Receive(handle) ==
    /\ handle \in 1..Len(conns)
    /\ isConnected(handle)
    /\ ~(Range(conns[handle].messageQueue) \subseteq delivered)
    /\ delivered' = delivered \cup Range(conns[handle].messageQueue)
    /\ UNCHANGED <<sent, poolVars, now, NotNet, rtVars, fcVars, ssVars, replVars>>

InitSend ==
    /\ sent = {}
    /\ delivered = {}

-----------------------------------------------------------------------------
(* The periodic loops: AgentLifecycle's health checks and ConnectionPool's idle  *)
(* sweep.  setInterval installs a timer that the runtime fires every interval    *)
(* until clearInterval removes it; the runtime does not wait for the promise a   *)
(* callback returns.                                                            *)

healthCheckIntervalMs == 30000

\* the interval startCleanup passes to setInterval
cleanupIntervalMs == 60000

\* config.maxConnectionIdleTime
maxConnectionIdleTime == 300000

\* null
NoInterval == 0

\* what the loops leave alone, the pool and the clock aside
NotLoops == <<cbVars, cbHist, agents, routerVars, repVars, orchVars, orchHist, exVars,
             rtVars, fcVars, ssVars, replVars, sendVars>>

\* setInterval(callback, ms): the timers with a new one, which has an identity of its own
FreshInterval == CHOOSE id \in 1..(Cardinality(intervals) + 1) : \A t \in intervals : t.id # id

setInterval(callback, ms) ==
    intervals \cup {[id |-> FreshInterval, callback |-> callback, due |-> now + ms]}

\* clearInterval(id)
clearInterval(id) == {t \in intervals : t.id # id}

\* the runtime has run the timer's callback: the timer is due again an interval later
Rearmed(t, ms) == (intervals \ {t}) \cup {[t EXCEPT !.due = @ + ms]}

\* AgentLifecycle.registerAgent: Map.set on the agent's id
RegisterAgent(agent) ==
    /\ lifecycleAgents' =
          IF \E i \in 1..Len(lifecycleAgents) : lifecycleAgents[i].id = agent.id
            THEN [i \in 1..Len(lifecycleAgents) |->
                    IF lifecycleAgents[i].id = agent.id THEN agent ELSE lifecycleAgents[i]]
            ELSE Append(lifecycleAgents, agent)
    /\ UNCHANGED <<healthCheckInterval, cleanupInterval, intervals, passes, now, poolVars,
                   NotLoops>>

StartHealthChecks ==
    /\ IF healthCheckInterval # NoInterval
          THEN UNCHANGED <<healthCheckInterval, intervals>>
          ELSE /\ intervals' = setInterval("performHealthChecks", healthCheckIntervalMs)
               /\ healthCheckInterval' = FreshInterval
    /\ UNCHANGED <<cleanupInterval, passes, lifecycleAgents, now, poolVars, NotLoops>>

StopHealthChecks ==
    /\ IF healthCheckInterval # NoInterval
          THEN /\ intervals' = clearInterval(healthCheckInterval)
               /\ healthCheckInterval' = NoInterval
          ELSE UNCHANGED <<healthCheckInterval, intervals>>
    /\ UNCHANGED <<cleanupInterval, passes, lifecycleAgents, now, poolVars, NotLoops>>

\* the health check timer fires: performHealthChecks runs up to its first await of
\* isHealthy, or to its end when there is no agent
HealthCheckTick(t) ==
    LET all == [i \in 1..Len(lifecycleAgents) |-> lifecycleAgents[i].id] IN
    /\ t \in intervals
    /\ t.callback = "performHealthChecks"
    /\ t.due <= now
    /\ Len(passes) < MaxPasses
    /\ intervals' = Rearmed(t, healthCheckIntervalMs)
    /\ passes' = IF all = <<>> THEN passes ELSE Append(passes, [agents |-> all, pos |-> 1])
    /\ UNCHANGED <<healthCheckInterval, cleanupInterval, lifecycleAgents, now, poolVars,
                   NotLoops>>

\* the status performHealthChecks leaves an agent with
CheckedStatus(status, outcome) ==
    IF outcome = "threw" THEN "degraded"
    ELSE IF outcome = "healthy" /\ status # "online" THEN "online"
    ELSE IF outcome = "unhealthy" /\ status = "online" THEN "degraded"
    ELSE status

\* a pass after the isHealthy it awaited has settled, up to the next await or to its end
AfterIsHealthy(p, outcome) ==
    LET pass == passes[p]
        id == pass.agents[pass.pos]
    IN  /\ lifecycleAgents' =
              [i \in 1..Len(lifecycleAgents) |->
                  IF lifecycleAgents[i].id = id
                    THEN [lifecycleAgents[i] EXCEPT !.status = CheckedStatus(@, outcome)]
                    ELSE lifecycleAgents[i]]
        /\ passes' = IF pass.pos < Len(pass.agents)
                        THEN [passes EXCEPT ![p].pos = @ + 1]
                        ELSE SubSeq(passes, 1, p - 1) \o SubSeq(passes, p + 1, Len(passes))
        /\ UNCHANGED <<healthCheckInterval, cleanupInterval, intervals, now, poolVars,
                       NotLoops>>

StartCleanup ==
    /\ IF cleanupInterval # NoInterval
          THEN UNCHANGED <<cleanupInterval, intervals>>
          ELSE /\ intervals' = setInterval("cleanupIdleConnections", cleanupIntervalMs)
               /\ cleanupInterval' = FreshInterval
    /\ UNCHANGED <<healthCheckInterval, passes, lifecycleAgents, now, poolVars, NotLoops>>

StopCleanup ==
    /\ IF cleanupInterval # NoInterval
          THEN /\ intervals' = clearInterval(cleanupInterval)
               /\ cleanupInterval' = NoInterval
          ELSE UNCHANGED <<cleanupInterval, intervals>>
    /\ UNCHANGED <<healthCheckInterval, passes, lifecycleAgents, now, poolVars, NotLoops>>

\* the ids cleanupIdleConnections collects and closeConnection finds in the pool
IdleConnections ==
    {lastAccessTime[i].remoteId : i \in
        {j \in 1..Len(lastAccessTime) :
            /\ now - lastAccessTime[j].time > maxConnectionIdleTime
            /\ lastAccessTime[j].remoteId \in DOMAIN connections}}

\* the cleanup timer fires: cleanupIdleConnections.  The promises its pass awaits are
\* MockConnection.disconnect's, which settle without waiting for anything, so the pass
\* is over before the runtime runs another timer's callback.
CleanupTick(t) ==
    /\ t \in intervals
    /\ t.callback = "cleanupIdleConnections"
    /\ t.due <= now
    /\ intervals' = Rearmed(t, cleanupIntervalMs)
    /\ conns' = [h \in 1..Len(conns) |->
                    IF \E r \in IdleConnections : connections[r] = h
                      THEN Disconnected(conns[h]) ELSE conns[h]]
    /\ connections' = [r \in DOMAIN connections \ IdleConnections |-> connections[r]]
    /\ lastAccessTime' = SelectSeq(lastAccessTime, LAMBDA a : a.remoteId \notin IdleConnections)
    /\ UNCHANGED <<healthCheckInterval, cleanupInterval, passes, lifecycleAgents, calls, now,
                   NotLoops>>

\* time passes, up to the moment the next timer is due
LoopTick ==
    /\ now < MaxLoopTicks * healthCheckIntervalMs
    /\ \A t \in intervals : t.due > now
    /\ now' = now + healthCheckIntervalMs
    /\ UNCHANGED <<loopVars, poolVars, NotLoops>>

InitLoops ==
    /\ healthCheckInterval = NoInterval
    /\ cleanupInterval = NoInterval
    /\ intervals = {}
    /\ passes = <<>>
    /\ lifecycleAgents = <<>>

-----------------------------------------------------------------------------
(* The mesh components as constructed *)

InitNet == InitReplication /\ InitPool /\ InitSend /\ InitLoops

InitMesh == InitRouting /\ InitFlow /\ InitStore /\ InitNet

-----------------------------------------------------------------------------
(* The clock *)

TickMs == resetTimeout \div TicksPerTimeout

MaxTime == MaxTicks * TickMs

\* the times at which a pending timer is to run
Deadlines ==
    {Head(timers[a]) : a \in {b \in CBAgents : timers[b] # <<>>}}
        \cup (IF exPc = "sleep" THEN {exWake} ELSE {})

\* time passes, to the next pending timer or by one step of the clock; a timer that
\* is due runs before the clock moves on
Tick ==
    LET next == {d \in Deadlines : d < now + TickMs} IN
    /\ now < MaxTime
    /\ \A d \in Deadlines : d > now
    /\ now' = IF next = {} THEN now + TickMs
              ELSE CHOOSE d \in next : \A e \in next : d <= e
    /\ UNCHANGED <<cbVars, cbHist, agents, routerVars, repVars, orchVars, orchHist, exVars,
                   meshVars>>

-----------------------------------------------------------------------------
(* Inputs *)

\* the agents the router's callers register
RouterAgentInputs ==
    [id : AgentIds, type : {"llm", "tool"}, capabilities : {{}, {"nlp"}},
     reputationScore : {300, 500, 900}, lastHeartbeat : {0, heartbeatWindow},
     status : {"online", "offline"}]

RouterTaskInputs ==
    [id : {"t1"}, requiredType : {"", "llm"}, requiredCapability : {"", "nlp"}]

\* the agents registered around a findAlternativeAgent call: at the reputation floor
\* and above it
FallbackAgentInputs ==
    [id : AgentIds, type : {"llm", "tool"}, capabilities : {{}, {"nlp"}},
     reputationScore : {300, 900}, lastHeartbeat : {0}, status : {"online", "offline"}]

\* the agents handed to register by the directory's callers: scores below 0, at the
\* ends, inside and above 1
RegistryAgentInputs ==
    [id : AgentIds, type : {"llm"}, capabilities : {{}},
     reputationScore : {-200, 0, 500, 1000, 1500}, lastHeartbeat : {0}, status : {"online"}]

\* the deltas handed to updateReputation
DeltaInputs == {-700, -100, 100, 700}

\* the ids findAlternativeAgent is told to exclude: the agents', and one no agent has
ExcludeInputs == AgentIds \cup {"a9"}

\* the initial scores given to initializeAgent: below 0, the ends, the quarantine
\* threshold and its neighbours, above 1
InitialScoreInputs == {-500, 0, 250, 300, 350, 800, 1000, 1500}

\* the agents registered around an executeTask call
ExecAgentInputs ==
    [id : AgentIds, type : {"llm"}, capabilities : {{}}, reputationScore : {900},
     lastHeartbeat : {0}, status : {"online"}]

\* the tasks handed to executeTask: the id generateId gives the first task, and an id
\* the orchestrator never hands out
ExecTaskInputs ==
    [id : {"t1", "t9"}, requiredType : {""}, requiredCapability : {""}]

TaskDefinitionInputs == [requiredType : {""}, requiredCapability : {""}]

\* the definition lists handed to decomposeTasks: one task, or two
TaskDefinitionLists ==
    {<<def>> : def \in TaskDefinitionInputs}
        \cup {<<d1, d2>> : d1 \in TaskDefinitionInputs, d2 \in TaskDefinitionInputs}

\* the task ids and job ids the orchestrator's callers pass: those generateId hands
\* out, and one it never does
OrchTaskInputs == Range(TaskIdOrder) \cup {"t9"}

OrchJobInputs == Range(JobIdOrder) \cup {"j9"}

\* the scores agents are given in the tracker before the orchestrator runs
OrchScoreInputs == {100, 1000}

\* the sizes handed to write and drain
DataSizeInputs == {MiB, 2 * MiB, 5 * MiB}

\* the values written to the state store
StateValueInputs == {"v1", "v2", "undefined"}

\* the peers of the mesh that sends, and the messages handed to sendMessage: one per
\* peer, each half the buffer long, and one without destination
MeshPeerInputs == {"n1", "n2"}

MessageInputs ==
    {[id |-> "m1", to |-> "n1", size |-> 5 * MiB],
     [id |-> "m2", to |-> "n2", size |-> 5 * MiB],
     [id |-> "m3", to |-> "none", size |-> 5 * MiB]}

\* the caller that sends and the caller that closes connections
Sender == "g1"

Closer == "g2"

\* the peers connections are asked for
PoolPeerInputs == {"n1", "n2", "n3"}

\* the values the two replicating nodes write
ReplicatedValueInputs == {"v1", "v2"}

\* the remote changes handed to applyRemoteChange: stamped now, a whole freshness
\* window ago, or a millisecond less than that
RemoteChangeInputs ==
    [key : StateKeys, newValue : {"v1", "v2"}, timestamp : {0, 1, freshnessWindow}]

\* the nodes of the mesh: this node and two peers
NodeIds == {nodeId, "n1", "n2"}

\* the next hops routes are announced with
HopInputs == {"n1", "n2"}

\* the distances routes are announced with
DistanceInputs == {1, 2}

-----------------------------------------------------------------------------
(* Specifications *)

\* the circuit breaker under failures, successes, its reset timers and the clock
InitBreaker ==
    InitClock /\ InitBreakerVars /\ InitRegistry /\ InitRouterVars /\ InitReputation
    /\ InitOrchestrator /\ InitExecute /\ InitMesh

NextBreaker ==
    \/ \E a \in CBAgents : RecordAgentFailure(a) /\ ObserveFailure(a)
    \/ \E a \in CBAgents : RecordAgentSuccess(a) /\ ObserveSuccess(a)
    \/ \E a \in CBAgents : FireResetTimer(a) /\ ObserveTimer(a)
    \/ Tick

SpecBreaker == InitBreaker /\ [][NextBreaker]_vars

\* the router over every directory its callers can build, one heartbeat window
\* after time 0
InitRouter ==
    /\ now = heartbeatWindow
    /\ InitBreakerVars /\ InitRegistry /\ InitRouterVars /\ InitReputation
    /\ InitOrchestrator /\ InitExecute /\ InitMesh

NextRouter ==
    \/ \E agent \in RouterAgentInputs : Register(agent)
    \/ \E a \in AgentIds : Unregister(a)
    \/ \E a \in AgentIds, st \in {"online", "offline"} : UpdateStatus(a, st)
    \/ \E task \in RouterTaskInputs : FindBestAgent(task)

\* one executeTask call, with the directory, the task table and the breakers changing
\* around it and during its backoff waits
InitExec ==
    /\ InitClock /\ InitOpenedBreakers /\ InitRegistry /\ InitRouterVars /\ InitReputation
    /\ InitOrchestrator /\ InitExecute /\ InitMesh

NextExec ==
    \/ \E agent \in ExecAgentInputs : Register(agent)
    \/ \E a \in AgentIds, st \in {"online", "offline"} : UpdateStatus(a, st)
    \/ CreateJob /\ UNCHANGED orchHist
    \/ \E def \in TaskDefinitionInputs :
          DecomposeTasks(JobIdOrder[1], <<def>>) /\ UNCHANGED orchHist
    \/ \E a \in CBAgents : FireResetTimer(a) /\ UNCHANGED cbHist
    \/ \E a \in CBAgents : RecordAgentSuccess(a) /\ UNCHANGED cbHist
    \/ Tick
    \/ \E task \in ExecTaskInputs : ExecuteTaskCall(task)
    \/ ExecuteTaskAttempt
    \/ ExecuteTaskWake

SpecExec == InitExec /\ [][NextExec]_vars

\* the task table under any sequence of the orchestrator's operations, with agents
\* registering and the tracker and the breaker called by the orchestrator's users
InitOrch ==
    InitClock /\ InitBreakerVars /\ InitRegistry /\ InitRouterVars /\ InitReputation
    /\ InitOrchestrator /\ InitExecute /\ InitMesh

NextOrch ==
    \/ \E agent \in ExecAgentInputs : Register(agent)
    \/ \E a \in AgentIds : Unregister(a)
    \/ \E a \in AgentIds, score \in OrchScoreInputs :
          InitializeAgent(a, score) /\ UNCHANGED repLast
    \/ CreateJob /\ ObserveOrchestrator("createJob", "none", "none", FALSE)
    \/ \E j \in OrchJobInputs, defs \in TaskDefinitionLists :
          /\ DecomposeTasks(j, defs)
          /\ ObserveJobCall("decomposeTasks", j, j \notin DOMAIN jobs)
    \/ \E t \in OrchTaskInputs, a \in AgentIds :
          /\ AssignTask(t, a)
          /\ ObserveOrchestrator("assignTask", t, a, assignTaskError(t, a) # "ok")
    \/ \E t \in OrchTaskInputs :
          /\ CompleteTask(t)
          /\ ObserveOrchestrator("completeTask", t, "none", t \notin DOMAIN tasks)
    \/ \E t \in OrchTaskInputs :
          /\ FailTask(t)
          /\ ObserveOrchestrator("failTask", t, "none", t \notin DOMAIN tasks)
    \/ \E t \in OrchTaskInputs :
          /\ GetTask(t)
          /\ ObserveOrchestrator("getTask", t, "none", t \notin DOMAIN tasks)
    \/ \E j \in OrchJobInputs :
          GetJob(j) /\ ObserveJobCall("getJob", j, j \notin DOMAIN jobs)

SpecOrch == InitOrch /\ [][NextOrch]_vars

SpecRouter == InitRouter /\ [][NextRouter]_vars

\* the agent directory under any sequence of register, updateReputation and
\* updateStatus calls
NextRegistry ==
    \/ \E agent \in RegistryAgentInputs : Register(agent)
    \/ \E a \in AgentIds, delta \in DeltaInputs : UpdateReputation(a, delta)
    \/ \E a \in AgentIds, st \in {"online", "offline"} : UpdateStatus(a, st)

SpecRegistry == InitOrch /\ [][NextRegistry]_vars

\* the two periodic loops started and stopped by their owners, with agents registered
\* for health checks, isHealthy settling whenever it does, and a connection opened in
\* the pool
LifecycleAgentInputs == [id : AgentIds, status : {"online"}]

NextLoops ==
    \/ \E agent \in LifecycleAgentInputs : RegisterAgent(agent)
    \/ StartHealthChecks
    \/ StopHealthChecks
    \/ \E t \in intervals : HealthCheckTick(t)
    \/ \E p \in 1..Len(passes), outcome \in {"healthy", "unhealthy", "threw"} :
          AfterIsHealthy(p, outcome)
    \/ StartCleanup
    \/ StopCleanup
    \/ \E t \in intervals : CleanupTick(t)
    \/ GetConnection(Sender, "n1")
    \/ AfterConnect(Sender)
    \/ LoopTick

SpecLoops == InitOrch /\ [][NextLoops]_vars

\* findAlternativeAgent over every directory its callers can build
NextFallback ==
    \/ \E agent \in FallbackAgentInputs : Register(agent)
    \/ \E a \in AgentIds : Unregister(a)
    \/ \E a \in AgentIds, st \in {"online", "offline"} : UpdateStatus(a, st)
    \/ \E task \in RouterTaskInputs, excludeAgentId \in ExcludeInputs :
          FindAlternativeAgent(task, excludeAgentId)

SpecFallback == InitRouter /\ [][NextFallback]_vars

\* the routing table under any sequence of its operations and of registerPeer, with
\* the clock advancing by half the time to live
InitRoutingTable ==
    InitClock /\ InitBreakerVars /\ InitRegistry /\ InitRouterVars /\ InitReputation
    /\ InitOrchestrator /\ InitExecute /\ InitMesh

\* time passes
RouteTick ==
    /\ now < MaxRouteTicks * (ttl \div RouteTicksPerTtl)
    /\ now' = now + ttl \div RouteTicksPerTtl
    /\ UNCHANGED <<NotMesh, meshVars>>

NextRoutingTable ==
    \/ \E d \in NodeIds, h \in HopInputs, dist \in DistanceInputs :
          AddRoute(d, h, dist) /\ ObserveRouting("addRoute", d, h, dist)
    \/ \E peer \in NodeIds : RegisterPeer(peer) /\ ObserveRouting("registerPeer", peer, peer, 1)
    \/ \E d \in NodeIds : GetRoute(d) /\ ObserveRouting("getRoute", d, "none", 0)
    \/ \E d \in NodeIds : GetNextHop(d) /\ ObserveRouting("getNextHop", d, "none", 0)
    \/ \E d \in NodeIds : RemoveRoute(d) /\ ObserveRouting("removeRoute", d, "none", 0)
    \/ GetAllRoutes /\ ObserveRouting("getAllRoutes", "none", "none", 0)
    \/ GetDirectNeighbors /\ ObserveRouting("getDirectNeighbors", "none", "none", 0)
    \/ Cleanup /\ ObserveRouting("cleanup", "none", "none", 0)
    \/ Clear /\ ObserveRouting("clear", "none", "none", 0)
    \/ RouteTick

SpecRoutingTable == InitRoutingTable /\ [][NextRoutingTable]_vars

\* the flow controller under any sequence of write, drain and reset calls
InitFlowController ==
    InitClock /\ InitBreakerVars /\ InitRegistry /\ InitRouterVars /\ InitReputation
    /\ InitOrchestrator /\ InitExecute /\ InitMesh

NextFlowController ==
    \/ \E size \in DataSizeInputs : Write(size)
    \/ \E size \in DataSizeInputs : Drain(size)
    \/ Reset

SpecFlowController == InitFlowController /\ [][NextFlowController]_vars

\* the state store under any sequence of its operations, one freshness window after
\* time 0
InitStateStore ==
    /\ now = freshnessWindow
    /\ InitBreakerVars /\ InitRegistry /\ InitRouterVars /\ InitReputation
    /\ InitOrchestrator /\ InitExecute /\ InitMesh

NextStateStore ==
    \/ \E k \in StateKeys, v \in StateValueInputs :
          SetState(k, v) /\ ObserveStore("setState", k, v, now, TRUE)
    \/ \E k \in StateKeys :
          GetState(k) /\ ObserveStore("getState", k, "undefined", now, FALSE)
    \/ \E k \in StateKeys :
          DeleteState(k) /\ ObserveStore("deleteState", k, "undefined", now, FALSE)
    \/ \E change \in RemoteChangeInputs :
          /\ ApplyRemoteChange(change)
          /\ ObserveStore("applyRemoteChange", change.key, change.newValue,
                          change.timestamp, isRecent(change))
    \/ \E l \in ListenerIds :
          OnChange(l) /\ ObserveStore("onChange", "none", "undefined", now, FALSE)
    \/ \E l \in ListenerIds :
          Unsubscribe(l) /\ ObserveStore("unsubscribe", "none", "undefined", now, FALSE)
    \/ ClearState /\ ObserveStore("clear", "none", "undefined", now, FALSE)

SpecStateStore == InitStateStore /\ [][NextStateStore]_vars

\* two nodes that each write each key at most once, at one clock instant, and the
\* delivery of the change records to the other node; a record in flight is delivered
\* sooner or later
NextReplication ==
    \/ \E k \in StateKeys, v \in ReplicatedValueInputs :
          NodeWrite(k, v) /\ ObserveStore("setState", k, v, now, TRUE)
    \/ \E k \in StateKeys, v \in ReplicatedValueInputs : PeerWrite(k, v)
    \/ \E m \in inFlight :
          /\ DeliverToNode(m)
          /\ ObserveStore("applyRemoteChange", m.key, m.newValue, m.timestamp, isRecent(m))
    \/ \E m \in inFlight : DeliverToPeer(m)

\* the connection pool under calls of two callers that interleave at their awaits, one
\* of which also closes connections
InitConnectionPool ==
    /\ now = 0
    /\ InitBreakerVars /\ InitRegistry /\ InitRouterVars /\ InitReputation
    /\ InitOrchestrator /\ InitExecute /\ InitMesh

PoolTick ==
    /\ now < MaxPoolTime
    /\ now' = now + 1
    /\ UNCHANGED <<NotNet, meshVars>>

NextConnectionPool ==
    \/ \E c \in CallerIds, r \in PoolPeerInputs : GetConnection(c, r)
    \/ \E r \in PoolPeerInputs : CloseConnection(Closer, r)
    \/ \E c \in CallerIds : AfterDisconnect(c)
    \/ \E c \in CallerIds : AfterEvict(c)
    \/ \E c \in CallerIds : AfterConnect(c)
    \/ \E r \in PoolPeerInputs : ReleaseConnection(r)
    \/ PoolTick

SpecConnectionPool == InitConnectionPool /\ [][NextConnectionPool]_vars

\* the mesh sending messages while another caller closes connections, with peers being
\* registered, the flow controller drained and the far ends reading; a call in flight
\* is resumed and a far end that has something to read reads it
NextMesh ==
    \/ \E r \in MeshPeerInputs : RegisterPeer(r) /\ UNCHANGED rtLast
    \/ \E m \in MessageInputs : SendMessage(Sender, m)
    \/ \E c \in CallerIds : AfterGetConnection(c)
    \/ \E r \in MeshPeerInputs : CloseConnection(Closer, r)
    \/ \E c \in CallerIds : AfterDisconnect(c)
    \/ \E c \in CallerIds : AfterEvict(c)
    \/ \E c \in CallerIds : AfterConnect(c)
    \/ \E h \in 1..MaxHandles : Receive(h)
    \/ Drain(5 * MiB)
    \/ PoolTick

SpecMesh ==
    /\ InitConnectionPool
    /\ [][NextMesh]_vars
    /\ WF_vars(\E c \in CallerIds :
                  AfterGetConnection(c) \/ AfterDisconnect(c) \/ AfterEvict(c)
                  \/ AfterConnect(c))
    /\ WF_vars(\E h \in 1..MaxHandles : Receive(h))

SpecReplication ==
    /\ InitStateStore
    /\ [][NextReplication]_vars
    /\ WF_vars(\E m \in inFlight :
                  /\ DeliverToNode(m)
                  /\ ObserveStore("applyRemoteChange", m.key, m.newValue, m.timestamp,
                                  isRecent(m)))
    /\ WF_vars(\E m \in inFlight : DeliverToPeer(m))

\* the reputation tracker under any sequence of its three mutators
InitTracker ==
    InitClock /\ InitBreakerVars /\ InitRegistry /\ InitRouterVars /\ InitReputation
    /\ InitOrchestrator /\ InitExecute /\ InitMesh

NextTracker ==
    \/ \E a \in AgentIds, score \in InitialScoreInputs :
          InitializeAgent(a, score) /\ ObserveReputation("initializeAgent", a, score)
    \/ \E a \in AgentIds : RecordSuccess(a) /\ ObserveReputation("recordSuccess", a, 0)
    \/ \E a \in AgentIds : RecordFailure(a) /\ ObserveReputation("recordFailure", a, 0)
    \/ \E a \in AgentIds : ShouldQuarantine(a) /\ ObserveReputation("shouldQuarantine", a, 0)

SpecTracker == InitTracker /\ [][NextTracker]_vars

\* the tracker's reads around initializeAgent; the history keeps what a read returned
\* in place of an argument
NextTrackerReads ==
    \/ \E a \in AgentIds, score \in InitialScoreInputs :
          InitializeAgent(a, score) /\ ObserveReputation("initializeAgent", a, score)
    \/ \E a \in AgentIds :
          GetScore(a) /\ ObserveReputation("getScore", a, getScore(reputation, a))
    \/ \E a \in AgentIds :
          GetReputation(a) /\ ObserveReputation("getReputation", a, getReputation(reputation, a))
    \/ \E a \in AgentIds : ShouldQuarantine(a) /\ ObserveReputation("shouldQuarantine", a, 0)

SpecTrackerReads == InitTracker /\ [][NextTrackerReads]_vars

-----------------------------------------------------------------------------
(* Claims about the circuit breaker, checked under SpecBreaker *)

\* the last breaker operation was op, on agent a
LastOp(op, a) == cbLast.op = op /\ cbLast.agent = a

\* C1, first part: the fifth of five failures recorded from a closed breaker with
\* count 0, no success in between, leaves the breaker open.
FifthFailureOpens ==
    \A a \in CBAgents :
        (LastOp("failure", a) /\ streak[a] = failureThreshold) => circuitBreaker[a] = "open"

\* C1, second part: when the reset timeout has elapsed (the reset timer has run) the
\* breaker is half-open.
TimeoutHalfOpens ==
    \A a \in CBAgents : LastOp("timer", a) => circuitBreaker[a] = "half-open"

\* C1, third part: a success recorded while half-open closes the breaker.
HalfOpenSuccessCloses ==
    \A a \in CBAgents :
        (LastOp("success", a) /\ cbLast.pre = "half-open") => circuitBreaker[a] = "closed"

\* C1: for an agent whose breaker is closed with failure count 0, five consecutive
\* recordAgentFailure calls (no recordAgentSuccess in between) leave the breaker open;
\* once the reset timeout has elapsed it is half-open; one recordAgentSuccess recorded
\* while half-open returns it to closed.
C1_FiveFailuresThenRecovery ==
    FifthFailureOpens /\ TimeoutHalfOpens /\ HalfOpenSuccessCloses

\* C2: in every behaviour a breaker never goes from open directly to closed: every
\* step out of open leads to open or half-open, closed is entered from half-open only,
\* and a recordAgentSuccess recorded while the breaker is open leaves it open.
C2_NeverSkipsHalfOpen ==
    [][\A a \in CBAgents :
          /\ circuitBreaker[a] = "open" => circuitBreaker'[a] \in {"open", "half-open"}
          /\ (circuitBreaker'[a] = "closed" /\ circuitBreaker[a] # "closed")
                => circuitBreaker[a] = "half-open"
          /\ (circuitBreaker[a] = "open" /\ cbLast'.op = "success" /\ cbLast'.agent = a)
                => circuitBreaker'[a] = "open"]_vars

\* C2's case: a success has just been recorded for an agent whose breaker was open,
\* and the breaker is still open.
C2_Witness ==
    \E a \in CBAgents :
        LastOp("success", a) /\ cbLast.pre = "open" /\ circuitBreaker[a] = "open"

\* C3: a recordAgentFailure recorded while the breaker is half-open moves it back to
\* open.
C3_HalfOpenFailureReopens ==
    \A a \in CBAgents :
        (LastOp("failure", a) /\ cbLast.pre = "half-open") => circuitBreaker[a] = "open"

-----------------------------------------------------------------------------
(* Claims about TaskRouter, checked under SpecRouter *)

\* the directory entry of a registered agent
AgentOf(agentId) == agents[IndexOf(agentId)]

\* what the filter is meant to let through: online, reputation above 0.3, of the
\* required type and with the required capability when the task names one
Eligible(agent, task) ==
    /\ agent.status = "online"
    /\ agent.reputationScore > 300
    /\ task.requiredType # "" => agent.type = task.requiredType
    /\ task.requiredCapability # "" => task.requiredCapability \in agent.capabilities

Survivors(task) == {i \in 1..Len(agents) : Eligible(agents[i], task)}

\* the last findBestAgent call was for this task and the directory is as it was
Routed(task) == routedTask = task /\ decision = findBestAgent(task)

\* C6: for every directory and every task, findBestAgent never returns an agent that
\* is not online, has reputation <= 0.3, or lacks the type or the capability the task
\* requires.
C6_NeverReturnsIneligible ==
    \A task \in RouterTaskInputs :
        LET d == findBestAgent(task) IN
        d # NoDecision => HasAgent(d.agentId) /\ Eligible(AgentOf(d.agentId), task)

\* C6's case: a task requiring a capability was routed while an online, reputable
\* agent without that capability stood first in the directory, and another was chosen.
C6_Witness ==
    \E task \in RouterTaskInputs :
        /\ task.requiredCapability # ""
        /\ Routed(task)
        /\ decision # NoDecision
        /\ Len(agents) = 2
        /\ agents[1].status = "online" /\ agents[1].reputationScore > 300
        /\ task.requiredCapability \notin agents[1].capabilities
        /\ decision.agentId = agents[2].id

\* two registered agents, online with a recent heartbeat, that differ in reputation
\* (0.5 and 0.9) and in nothing else but their ids
TwoAgentsDifferingInReputation ==
    /\ Len(agents) = 2
    /\ \A i \in 1..2 : agents[i].status = "online" /\ now - agents[i].lastHeartbeat < 60000
    /\ agents[1].type = agents[2].type
    /\ agents[1].capabilities = agents[2].capabilities
    /\ {agents[1].reputationScore, agents[2].reputationScore} = {500, 900}

\* C7: given two online agents that differ only in reputation (0.5 and 0.9) and a task
\* with no capability requirement, findBestAgent selects the agent with reputation
\* 0.9, whichever of the two was registered first.
C7_PrefersHigherReputation ==
    \A task \in RouterTaskInputs :
        (task.requiredType = "" /\ task.requiredCapability = ""
            /\ TwoAgentsDifferingInReputation)
        => /\ findBestAgent(task) # NoDecision
           /\ AgentOf(findBestAgent(task).agentId).reputationScore = 900

\* C8: findBestAgent returns none exactly when no agent survives filtering, and
\* otherwise a decision that names one of the survivors.
C8_NoneIffNoSurvivor ==
    \A task \in RouterTaskInputs :
        LET d == findBestAgent(task) IN
        /\ d = NoDecision <=> Survivors(task) = {}
        /\ d # NoDecision => \E i \in Survivors(task) : agents[i].id = d.agentId

\* C8's cases: a call that returned none on a directory that is not empty (everything
\* filtered out) ...
C8_WitnessNone ==
    \E task \in RouterTaskInputs :
        Routed(task) /\ decision = NoDecision /\ Len(agents) = 2

\* ... and C8's witness, a call that named the only survivor of two registered agents
C8_Witness ==
    \E task \in RouterTaskInputs :
        /\ Routed(task)
        /\ Len(agents) = 2
        /\ Cardinality(Survivors(task)) = 1
        /\ \E i \in Survivors(task) : agents[i].id = decision.agentId

-----------------------------------------------------------------------------
(* Claims about ReputationTracker, checked under SpecTracker *)

\* C9: after any sequence of initializeAgent (with any initial score, also above 1 or
\* below 0), recordSuccess and recordFailure calls, every stored score lies in [0,1].
C9_ScoreInUnitInterval ==
    \A a \in DOMAIN reputation : reputation[a].score >= 0 /\ reputation[a].score <= 1000

\* C9's case: initializeAgent was just given a score above 1 for an agent without a
\* record, and the record it created holds 1.
C9_Witness ==
    /\ repLast.op = "initializeAgent" /\ repLast.fresh /\ repLast.arg > 1000
    /\ reputation[repLast.agent].score = 1000

\* the record an operation works on: the stored one, or a fresh one with score 1.0
RecordBefore(a) ==
    IF HasRecord(a) THEN reputation[a]
    ELSE [score |-> 1000, successCount |-> 0, failureCount |-> 0]

\* C10: recordSuccess yields score min(1, s + 0.1) and successCount + 1, recordFailure
\* yields score max(0, s - 0.2) and failureCount + 1, each leaving the other counter;
\* an agent without a record gets a fresh one with score 1.0 first; no counter of a
\* stored record ever decreases (and no record is dropped).
C10_SuccessFailureArithmetic ==
    [][\A a \in AgentIds :
          /\ (repLast'.op = "recordSuccess" /\ repLast'.agent = a) =>
                reputation'[a] =
                    [score |-> IF RecordBefore(a).score + 100 > 1000
                                  THEN 1000 ELSE RecordBefore(a).score + 100,
                     successCount |-> RecordBefore(a).successCount + 1,
                     failureCount |-> RecordBefore(a).failureCount]
          /\ (repLast'.op = "recordFailure" /\ repLast'.agent = a) =>
                reputation'[a] =
                    [score |-> IF RecordBefore(a).score - 200 < 0
                                  THEN 0 ELSE RecordBefore(a).score - 200,
                     successCount |-> RecordBefore(a).successCount,
                     failureCount |-> RecordBefore(a).failureCount + 1]
          /\ HasRecord(a) =>
                /\ a \in DOMAIN reputation'
                /\ reputation'[a].successCount >= reputation[a].successCount
                /\ reputation'[a].failureCount >= reputation[a].failureCount]_vars

\* C10's case: recordFailure was just called for an agent without a record, which now
\* has score 0.8, one failure and no success.
C10_Witness ==
    /\ repLast.op = "recordFailure" /\ repLast.fresh
    /\ reputation[repLast.agent] = [score |-> 800, successCount |-> 0, failureCount |-> 1]

\* C11: after any sequence of initializeAgent, recordSuccess and recordFailure calls,
\* shouldQuarantine(agentId) returns true if and only if the score stored for the
\* agent is strictly below 0.3; a stored score of exactly 0.3 gives false, and the
\* call leaves a stored score as it is.
C11_QuarantineIffBelowThreshold ==
    [][\A a \in AgentIds :
          (repLast'.op = "shouldQuarantine" /\ repLast'.agent = a) =>
              /\ repResult' = (HasRecord(a) /\ reputation[a].score < 300)
              /\ repResult' = (reputation'[a].score < 300)
              /\ HasRecord(a) => reputation'[a] = reputation[a]]_vars

\* C11's case: shouldQuarantine was just asked about an agent whose score failures
\* have brought down to exactly 0.3, and returned false.
C11_Witness ==
    /\ repLast.op = "shouldQuarantine" /\ ~repLast.fresh
    /\ reputation[repLast.agent].score = 300
    /\ reputation[repLast.agent].failureCount > 0
    /\ repResult = FALSE

\* a second case: the score is below 0.3 after a failure, and the answer is true
C11_WitnessQuarantined ==
    /\ repLast.op = "shouldQuarantine" /\ ~repLast.fresh
    /\ reputation[repLast.agent].score < 300
    /\ reputation[repLast.agent].failureCount > 0
    /\ repResult = TRUE

-----------------------------------------------------------------------------
(* Claims about executeTask, checked under SpecExec *)

Last(seq) == seq[Len(seq)]

\* the errors an attempt can raise
AttemptErrors ==
    {"No suitable agents found", "No alternative agents available",
     "INVALID_TASK", "AGENT_NOT_FOUND"}

\* C4: executeTask makes at most 3 attempts and then ends; it returns success on the
\* first attempt whose assignment succeeds, leaving the task queued and assigned to the
\* agent it returns, and makes no attempt after it; when all attempts fail it throws
\* the error of the last attempt.
C4_AtMostThreeAttemptsLastError ==
    /\ Len(exLog) <= 3
    /\ \A i \in 1..(Len(exLog) - 1) : exLog[i].outcome \in AttemptErrors
    /\ Len(exLog) = 3 => exPc \in {"returned", "threw"}
    /\ exPc = "returned" <=> (exLog # <<>> /\ Last(exLog).outcome = "ok")
    /\ exPc = "returned" =>
          /\ exResult.status = "success" /\ exResult.taskId = exTask.id
          /\ exTask.id \in DOMAIN tasks
          /\ tasks[exTask.id].status = "queued"
          /\ tasks[exTask.id].assignedAgentId = exResult.agentId
          /\ HasAgent(exResult.agentId)
    /\ exPc = "threw" <=> (Len(exLog) = 3 /\ Last(exLog).outcome # "ok")
    /\ exPc = "threw" =>
          /\ exResult.status = "error"
          /\ exResult.error = exLog[3].outcome
          /\ exResult.error \in AttemptErrors

\* C4's case: all three attempts failed, the first with another error than the last,
\* and the call threw.
C4_Witness ==
    /\ exPc = "threw"
    /\ Len(exLog) = 3
    /\ exLog[1].outcome # exLog[3].outcome

\* a second case of C4: the third attempt was the first to succeed
C4_WitnessLateSuccess ==
    exPc = "returned" /\ Len(exLog) = 3

NotFoundErrors == {"INVALID_TASK", "AGENT_NOT_FOUND"}

\* C5: a NotFound failure inside executeTask (an unknown task id, an unknown agent id)
\* is never retried: no further attempt and no backoff wait follow it, and executeTask
\* surfaces that error.
C5_NotFoundNeverRetried ==
    \A i \in 1..Len(exLog) :
        exLog[i].outcome \in NotFoundErrors =>
            /\ i = Len(exLog)
            /\ exLog[i].delay = 0
            /\ exPc = "threw"
            /\ exResult.error = exLog[i].outcome


-----------------------------------------------------------------------------
(* Claims about TaskOrchestrator, checked under SpecOrch *)

\* C12: in every reachable state of a job, after any sequence of decomposeTasks,
\* assignTask, completeTask and failTask calls, metrics.completedTasks is the number of
\* the job's tasks whose status is completed, metrics.failedTasks the number whose
\* status is failed, and metrics.totalTasks the number of its tasks.
C12_MetricsMatchStatuses ==
    \A j \in DOMAIN jobs :
        /\ jobs[j].metrics.completedTasks = CountStatus(jobs[j].tasks, tasks, "completed")
        /\ jobs[j].metrics.failedTasks = CountStatus(jobs[j].tasks, tasks, "failed")
        /\ jobs[j].metrics.totalTasks = Len(jobs[j].tasks)

\* the part of C12 the code keeps: the counters are right after every completeTask and
\* failTask call, and totalTasks always
C12_MetricsRightAfterTerminalCall ==
    \A j \in DOMAIN jobs :
        /\ jobs[j].metrics.totalTasks = Len(jobs[j].tasks)
        /\ (orchLast.op \in {"completeTask", "failTask"} /\ ~orchLast.threw) =>
              /\ jobs[j].metrics.completedTasks =
                     CountStatus(jobs[j].tasks, tasks, "completed")
              /\ jobs[j].metrics.failedTasks = CountStatus(jobs[j].tasks, tasks, "failed")

\* the end-to-end case of C12: of a job's two tasks one is completed and one failed
C12_OneCompletedOneFailed ==
    \E j \in DOMAIN jobs :
        /\ Len(jobs[j].tasks) = 2
        /\ \E t1, t2 \in Range(jobs[j].tasks) :
              tasks[t1].status = "completed" /\ tasks[t2].status = "failed"
        /\ jobs[j].metrics.completedTasks = 1 /\ jobs[j].metrics.failedTasks = 1

\* the agent a task is assigned to
AssigneeOf(taskId) == tasks[taskId].assignedAgentId

\* C13: when a task assigned to agent A is reported failed through failTask, A's
\* reputation score goes down by exactly 0.2 (clamped at 0) and a breaker failure is
\* recorded for A; when it is reported completed through completeTask, a success is
\* recorded for A in the tracker and in the breaker.
C13_OutcomeReachesTrackerAndBreaker ==
    [][\A t \in DOMAIN tasks : \A a \in AgentIds :
          (orchLast'.taskId = t /\ ~orchLast'.threw /\ AssigneeOf(t) = a) =>
              /\ orchLast'.op = "failTask" =>
                    /\ a \in DOMAIN reputation'
                    /\ reputation'[a].score = Max(0, RecordBefore(a).score - 200)
                    /\ reputation'[a].failureCount = RecordBefore(a).failureCount + 1
                    /\ failureCount'[a] = failureCount[a] + 1
              /\ orchLast'.op = "completeTask" =>
                    /\ a \in DOMAIN reputation'
                    /\ reputation'[a].successCount = RecordBefore(a).successCount + 1
                    /\ failureCount'[a] = 0]_vars


-----------------------------------------------------------------------------
(* Claims about RoutingTable, checked under SpecRoutingTable *)

\* the entry addRoute(destination, nextHop, distance) stores when it stores one
NewRoute(destination, nextHop, distance) ==
    [destination |-> destination, nextHop |-> nextHop, distance |-> distance,
     timestamp |-> now]

C14_WitnessReplaced ==
    /\ rtLast.op = "addRoute" /\ rtLast.destination \in DOMAIN routes
    /\ rtLast.stored = 2 /\ rtLast.distance = 1 /\ now > 0
    /\ routes[rtLast.destination] =
          NewRoute(rtLast.destination, rtLast.nextHop, rtLast.distance)

\* C15: after any sequence of addRoute, removeRoute, getRoute, cleanup and clear calls
\* and of registerPeer calls (registerPeer with the node's own id included), the table
\* holds no entry whose destination is the node's own id.
C15_NoRouteToSelf ==
    /\ nodeId \notin DOMAIN routes
    /\ \A d \in DOMAIN routes : routes[d].destination = d /\ d # nodeId

\* C15's case: registerPeer was just called with the node's own id, while the table
\* holds routes to other nodes.
C15_Witness ==
    /\ rtLast.op = "registerPeer" /\ rtLast.destination = nodeId
    /\ routes # <<>> /\ nodeId \notin DOMAIN routes

\* C16: once more than the time to live has passed since a route was stored, getRoute
\* and getNextHop for its destination return nothing and remove the entry; until then
\* they return the stored route (its next hop) and leave the table alone;
\* getAllRoutes and getDirectNeighbors never include an expired route.
C16_ExpiredRoutesNotReturned ==
    [][/\ \A dest \in DOMAIN routes :
             (rtLast'.op \in {"getRoute", "getNextHop"} /\ rtLast'.destination = dest) =>
                 IF now - routes[dest].timestamp > 300000
                    THEN rtResult' = {} /\ dest \notin DOMAIN routes'
                    ELSE /\ routes' = routes
                         /\ rtLast'.op = "getRoute" => rtResult' = {routes[dest]}
                         /\ rtLast'.op = "getNextHop" => rtResult' = {routes[dest].nextHop}
       /\ rtLast'.op = "getAllRoutes" =>
             \A r \in rtResult' :
                 /\ now - r.timestamp <= 300000
                 /\ r.destination \in DOMAIN routes /\ routes[r.destination] = r
       /\ rtLast'.op = "getDirectNeighbors" =>
             \A hop \in rtResult' :
                 \E d \in DOMAIN routes :
                     /\ routes[d].nextHop = hop /\ routes[d].distance = 1
                     /\ now - routes[d].timestamp <= 300000]_vars

\* C16's case: getRoute has just returned a route stored exactly one time to live
\* ago, which is still in the table.
C16_Witness ==
    /\ rtLast.op = "getRoute" /\ rtLast.destination \in DOMAIN routes
    /\ rtResult = {routes[rtLast.destination]}
    /\ now - routes[rtLast.destination].timestamp = 300000

\* a second case: getNextHop has just found the route expired and removed it, while
\* another route stays
C16_WitnessEvicted ==
    /\ rtLast.op = "getNextHop" /\ rtLast.destination \notin DOMAIN routes
    /\ rtResult = {} /\ now > 300000 /\ routes # <<>>


-----------------------------------------------------------------------------
(* Claims about FlowController, checked under SpecFlowController *)

\* C17: for any sequence of write and drain calls, write(size) returns false if and
\* only if the counter after adding size exceeds high-water % x capacity; every write
\* made while the counter is above that level returns false, not only the write that
\* first crosses it.
C17_WriteFalseIffAboveHighWater ==
    fcLast.op = "write" => (fcLast.result = FALSE <=> bufferSize > 8388608)

\* the part of C17 the code keeps: write returns false exactly when the call pauses
\* the controller, and then the counter is above the level
C17_WriteFalseIffItPauses ==
    [][fcLast'.op = "write" =>
          /\ fcLast'.result = FALSE <=> (~paused /\ paused')
          /\ fcLast'.result = FALSE => bufferSize' > 8388608
          /\ bufferSize' = bufferSize + fcLast'.size]_vars

\* C18: for any sequence of write and drain calls, drain(size) returns true only when
\* that call resumes the controller - it was paused and the counter after subtracting
\* size is below low-water % x capacity; a drain that leaves a paused controller at
\* or above the low-water level returns false and leaves it paused.
C18_DrainTrueOnlyWhenResuming ==
    [][fcLast'.op = "drain" =>
          /\ fcLast'.result = TRUE => (paused /\ ~paused' /\ bufferSize' < 2097152)
          /\ (paused /\ bufferSize' >= 2097152) => (fcLast'.result = FALSE /\ paused')]_vars

\* the part of C18 the code keeps: the controller resumes exactly when a drain brings
\* a paused controller below the low-water level, and that drain returns true
C18_ResumesOnlyBelowLowWater ==
    [][fcLast'.op = "drain" =>
          /\ bufferSize' = Max(0, bufferSize - fcLast'.size)
          /\ (paused /\ ~paused') <=> (paused /\ bufferSize' < 2097152)
          /\ (paused /\ ~paused') => fcLast'.result = TRUE
          /\ ~paused => (~paused' /\ fcLast'.result = FALSE)]_vars


-----------------------------------------------------------------------------
(* Claims about StateStore, checked under SpecStateStore *)

\* what the last operation on the key leaves to be read: the value of a setState,
\* nothing after a deleteState or a clear, nothing for a key never written
LastWritten(key) ==
    IF ssWritten[key].op = "setState" THEN ssWritten[key].value ELSE "undefined"

\* C19: for every key and value, getState(key) after setState(key, value) returns
\* exactly value, and getState(key) after deleteState(key) returns undefined,
\* whatever operations on other keys (and whatever reads) come in between.
C19_SetGetDeleteRoundTrip ==
    /\ ssLast.op = "getState" => ssResult = LastWritten(ssLast.key)
    /\ \A k \in StateKeys : getState(k) = LastWritten(k)

\* C19's case: getState was just asked for a key that was written and then deleted,
\* while the other key holds a value, and returned nothing.
C19_Witness ==
    /\ ssLast.op = "getState" /\ ssResult = "undefined"
    /\ ssWritten[ssLast.key].op = "deleteState" /\ ssSeen[ssLast.key] > 0
    /\ \E k \in StateKeys \ {ssLast.key} : getState(k) # "undefined"

\* a second case: getState returns the value of the second write of a key
C19_WitnessOverwritten ==
    /\ ssLast.op = "getState" /\ ssResult = "v2"
    /\ ssWritten[ssLast.key] = [op |-> "setState", value |-> "v2"]
    /\ currentVersion(ssLast.key) = 2

\* C20: for any sequence of setState, deleteState, applyRemoteChange and clear calls,
\* the version recorded for a key strictly increases with every local setState of the
\* key and never goes back to an older number: a write that follows a deleteState of
\* the key gets a version higher than every version the key had before.
C20_VersionNeverGoesBack ==
    [][\A k \in StateKeys :
          (ssLast'.op = "setState" /\ ssLast'.key = k) =>
              /\ k \in DOMAIN version'
              /\ version'[k] > ssSeen[k]]_vars

\* the part of C20 the code keeps: every write through setState gives the key the
\* number after the one it has, 1 for a key without a number
C20_VersionBumpsByOne ==
    [][\A k \in StateKeys :
          (ssLast'.accepted /\ ssLast'.key = k) =>
              /\ k \in DOMAIN version'
              /\ version'[k] = currentVersion(k) + 1]_vars

(***************************************************************************)
(* C21: applyRemoteChange and the freshness window.                        *)
(***************************************************************************)

\* C21: applyRemoteChange applies the change (the key now holds newValue, its version is one
\* higher, every subscribed listener is called, the call returns true) exactly when the
\* change's timestamp is less than the 60 s freshness window before the current time;
\* otherwise the call returns false and value, version and listeners are as before and no
\* listener is called.
C21_AppliesIffWithinWindow ==
    [][ssLast'.op = "applyRemoteChange" =>
         IF now - ssLast'.timestamp < 60000
           THEN /\ applied'
                /\ ssLast'.key \in DOMAIN state' /\ state'[ssLast'.key] = ssLast'.value
                /\ ssLast'.key \in DOMAIN version'
                /\ version'[ssLast'.key] = currentVersion(ssLast'.key) + 1
                /\ Len(notified') = Len(listeners)
                /\ \A i \in 1..Len(listeners) :
                      /\ notified'[i].listener = listeners[i]
                      /\ notified'[i].change.key = ssLast'.key
                      /\ notified'[i].change.newValue = ssLast'.value
           ELSE /\ ~applied'
                /\ state' = state
                /\ version' = version
                /\ listeners' = listeners
                /\ notified' = <<>>]_vars

\* a change one millisecond inside the window was applied and a listener was told
C21_Witness ==
    /\ ssLast.op = "applyRemoteChange"
    /\ ssLast.timestamp = now - 59999
    /\ applied
    /\ notified # <<>>

\* a change exactly one window old was refused for a key that holds a value, with a
\* listener subscribed
C21_WitnessStale ==
    /\ ssLast.op = "applyRemoteChange"
    /\ ssLast.timestamp = now - 60000
    /\ ~applied
    /\ ssLast.key \in DOMAIN state
    /\ listeners # <<>>

(***************************************************************************)
(* C22: a local setState racing an applyRemoteChange on the same key.      *)
(***************************************************************************)

\* C22: when a local setState and an applyRemoteChange of a change inside the freshness
\* window follow one another on the same key, in either order, the key ends up holding
\* the value of the write with the later timestamp: a remote change older than the local
\* write does not overwrite it.
C22_LaterTimestampWins ==
    [][/\ (/\ ssLast.op = "setState"
           /\ ssLast'.op = "applyRemoteChange"
           /\ ssLast'.key = ssLast.key
           /\ ssLast'.timestamp > now - 60000
           /\ ssLast'.timestamp < ssLast.timestamp
           => /\ ssLast.key \in DOMAIN state'
              /\ state'[ssLast.key] = ssLast.value)
       /\ (/\ ssLast.op = "applyRemoteChange"
           /\ ssLast.timestamp > now - 60000
           /\ ssLast'.op = "setState"
           /\ ssLast'.key = ssLast.key
           /\ ssLast.timestamp < ssLast'.timestamp
           => /\ ssLast.key \in DOMAIN state'
              /\ state'[ssLast.key] = ssLast'.value)]_vars

(***************************************************************************)
(* C23: two nodes writing the same key concurrently.                       *)
(***************************************************************************)

\* C23: two nodes that each wrote a key while the other's write of it was still on its
\* way, and that deliver every change record of those writes to the other node's
\* applyRemoteChange inside the freshness window with no further write, from some point
\* on hold the same value for the key.
C23_EventuallySameValue == <>[](\A k \in raced : getState(k) = peerState(k))

(***************************************************************************)
(* C24: listeners of the state store.                                      *)
(***************************************************************************)

\* C24: a setState call invokes every listener subscribed at the call exactly once, before
\* it returns, with the change record (the key, the value the key had, the new value,
\* the local node as source), also when a listener before it in the notification throws;
\* and no operation invokes a listener that is not subscribed, so an unsubscribed
\* listener is not invoked by any later change.
C24_EverySubscribedListenerOnce ==
    [][/\ ssLast'.op = "setState" =>
            /\ Len(notified') = Len(listeners)
            /\ \A l \in Range(listeners) :
                  Cardinality({i \in 1..Len(notified') : notified'[i].listener = l}) = 1
            /\ \A i \in 1..Len(notified') :
                  /\ notified'[i].change.key = ssLast'.key
                  /\ notified'[i].change.oldValue = getState(ssLast'.key)
                  /\ notified'[i].change.newValue = ssLast'.value
                  /\ notified'[i].change.source = nodeId
       /\ \A i \in 1..Len(notified') : notified'[i].listener \in Range(listeners)]_vars

\* setState told both listeners although the first one in the notification throws
C24_Witness ==
    /\ ssLast.op = "setState"
    /\ Len(listeners) = 2
    /\ listeners[1] \in ThrowingListeners
    /\ Len(notified) = 2
    /\ notified[2].listener = listeners[2]

\* setState with one of the two listeners not subscribed told the other one only
C24_WitnessUnsubscribed ==
    /\ ssLast.op = "setState"
    /\ Len(listeners) = 1
    /\ Len(notified) = 1
    /\ notified[1].listener = listeners[1]

(***************************************************************************)
(* C25: the capacity of the connection pool.                               *)
(***************************************************************************)

\* C25: in every reachable state, whatever the interleaving of getConnection,
\* releaseConnection and closeConnection calls, the pool holds at most maxConnections
\* connections.
C25_AtMostMaxConnections == poolSize <= maxConnections

(***************************************************************************)
(* C26: unknown ids.                                                       *)
(***************************************************************************)

\* C26: getTask, assignTask, completeTask and failTask raise for a task id the orchestrator
\* does not know, getJob and decomposeTasks for an unknown job id, and assignTask for an
\* agent the directory does not hold; a call that raises leaves every task and every
\* job, its metrics included, as they were.
C26_UnknownIdsRaiseAndChangeNothing ==
    [][(agents' = agents /\ reputation' = reputation) =>
         /\ (/\ orchLast'.op \in {"getTask", "assignTask", "completeTask", "failTask"}
             /\ orchLast'.taskId \notin DOMAIN tasks) => orchLast'.threw
         /\ (/\ orchLast'.op \in {"getJob", "decomposeTasks"}
             /\ orchLast'.jobId \notin DOMAIN jobs) => orchLast'.threw
         /\ (/\ orchLast'.op = "assignTask"
             /\ ~HasAgent(orchLast'.agentId)) => orchLast'.threw
         /\ orchLast'.threw => (tasks' = tasks /\ jobs' = jobs)]_vars

\* assignTask raised for a known task because the agent is not in the directory
C26_Witness ==
    /\ orchLast.op = "assignTask"
    /\ orchLast.threw
    /\ orchLast.taskId \in DOMAIN tasks
    /\ ~HasAgent(orchLast.agentId)

\* completeTask raised for an unknown task id while the job has tasks
C26_WitnessUnknownTask ==
    /\ orchLast.op = "completeTask"
    /\ orchLast.threw
    /\ orchLast.taskId \notin DOMAIN tasks
    /\ tasks # <<>>

(***************************************************************************)
(* C27: the lifecycle of a task.                                           *)
(***************************************************************************)

\* the status changes of the lifecycle pending -> queued -> in_progress -> completed or
\* failed
LifecycleSteps ==
    {<<"pending", "queued">>, <<"queued", "in_progress">>,
     <<"in_progress", "completed">>, <<"in_progress", "failed">>}

\* C27: a task is created pending, every change of its status is a step of the lifecycle
\* pending -> queued -> in_progress -> {completed | failed}, and once it is completed or
\* failed no later call changes its status.
C27_StatusFollowsLifecycle ==
    [][/\ \A t \in DOMAIN tasks' \ DOMAIN tasks : tasks'[t].status = "pending"
       /\ \A t \in DOMAIN tasks :
             /\ t \in DOMAIN tasks'
             /\ tasks'[t].status # tasks[t].status =>
                   <<tasks[t].status, tasks'[t].status>> \in LifecycleSteps]_vars

\* C27, the part that holds of the code: a task is created pending, and only assignTask,
\* completeTask and failTask change a status, to queued, completed and failed.
C27_StatusSetByItsCall ==
    [][/\ \A t \in DOMAIN tasks' \ DOMAIN tasks : tasks'[t].status = "pending"
       /\ \A t \in DOMAIN tasks :
             /\ t \in DOMAIN tasks'
             /\ tasks'[t].status # tasks[t].status =>
                   /\ orchLast'.taskId = t /\ ~orchLast'.threw
                   /\ \/ orchLast'.op = "assignTask" /\ tasks'[t].status = "queued"
                      \/ orchLast'.op = "completeTask" /\ tasks'[t].status = "completed"
                      \/ orchLast'.op = "failTask" /\ tasks'[t].status = "failed"]_vars

\* C28: in every state where a job has at least one task and all of its tasks are
\* completed, the job's status is completed.
C28_JobCompletedWhenAllTasksAre ==
    \A j \in DOMAIN jobs :
        (/\ jobs[j].tasks # <<>>
         /\ \A i \in 1..Len(jobs[j].tasks) : tasks[jobs[j].tasks[i]].status = "completed")
        => jobs[j].status = "completed"

(***************************************************************************)
(* C29, C30: sendMessage, backpressure and delivery.                       *)
(***************************************************************************)

\* C29: once write has returned false and the flow controller is paused, sendMessage hands
\* no message to connection.send until the controller has resumed: no connection's
\* queue takes a message in a step that ends with the controller paused.
C29_NoSendWhilePaused ==
    [][\A h \in 1..Len(conns) :
          Len(conns'[h].messageQueue) > Len(conns[h].messageQueue) => ~paused']_vars

\* C30: every message for which sendMessage completed without an error is eventually read
\* by the far end, also when the connection it was queued on is disconnected afterwards.
C30_SentIsEventuallyDelivered ==
    \A m \in {"m1", "m2"} : (m \in sent) ~> (m \in delivered)

(***************************************************************************)
(* C32: the backoff of executeTask.                                        *)
(***************************************************************************)

\* C32: after failed attempt k < 3 executeTask waits min(1000 * 2^(k-1), cap) ms before
\* attempt k+1, which is 1000 ms after the first failure and 2000 ms after the second;
\* the next attempt does not start before the wait is over, the delays never decrease
\* and never exceed the cap, and no wait follows the final attempt.
C32_BackoffDelays ==
    [][/\ (exPc = "attempt" /\ exPc' = "sleep") =>
            /\ exAttempt < 3
            /\ exWake' = now + (IF exAttempt = 1 THEN 1000 ELSE 2000)
            /\ exWake' - now = Min(1000 * 2 ^ (exAttempt - 1), 10000)
       /\ (exPc = "sleep" /\ exPc' = "attempt") =>
            /\ now >= exWake
            /\ exAttempt' = exAttempt + 1
       /\ (exPc = "attempt" /\ exAttempt = 3) => exPc' # "sleep"
       /\ \A i \in 1..Len(exLog') :
            /\ exLog'[i].delay <= 10000
            /\ (i = 3 \/ exLog'[i].outcome = "ok") => exLog'[i].delay = 0
            /\ \A j \in 1..Len(exLog') :
                  (i < j /\ j < 3 /\ exLog'[j].outcome # "ok") =>
                      exLog'[i].delay <= exLog'[j].delay]_vars

\* all three attempts failed: 1000 ms were waited after the first, 2000 ms after the
\* second, and nothing after the third
C32_Witness ==
    /\ exPc = "threw"
    /\ Len(exLog) = 3
    /\ exLog[1].delay = 1000
    /\ exLog[2].delay = 2000
    /\ exLog[3].delay = 0

(***************************************************************************)
(* C33: executeTask and open breakers.                                     *)
(***************************************************************************)

\* C33: executeTask never assigns the task to an agent whose circuit breaker is open at the
\* moment of the assignment, the fallback agent of findAlternativeAgent included.
C33_NeverAssignsToOpenBreaker ==
    [][(exPc = "attempt" /\ exPc' = "returned") =>
          /\ ~isCircuitOpen(exResult'.agentId)
          /\ tasks'[exTask.id].assignedAgentId = exResult'.agentId]_vars

\* C33, the part that holds of the code: the agent findBestAgent chose is not assigned the
\* task while its breaker is open.
C33_BestAgentWithOpenBreakerIsSkipped ==
    [][(exPc = "attempt" /\ exPc' = "returned" /\ findBestAgent(exTask) # NoDecision
        /\ isCircuitOpen(findBestAgent(exTask).agentId)) =>
          exResult'.agentId # findBestAgent(exTask).agentId]_vars

(***************************************************************************)
(* C34: when a breaker becomes half-open.                                  *)
(***************************************************************************)

\* C34: a breaker becomes half-open only from open, and only when the full reset timeout
\* has passed since it last went from not open to open; a closed breaker is never moved
\* to half-open.
C34_HalfOpenOnlyFromOpenAfterTimeout ==
    [][\A a \in CBAgents :
          (circuitBreaker'[a] = "half-open" /\ BreakerState(a) # "half-open") =>
              /\ BreakerState(a) = "open"
              /\ now - openedAt[a] >= resetTimeout]_vars

\* C34, the part that holds of the code: only a reset timer makes a breaker half-open, and
\* a timer runs a full reset timeout after the failure that set it.
C34_HalfOpenOnlyByTimer ==
    [][\A a \in CBAgents :
          (circuitBreaker'[a] = "half-open" /\ BreakerState(a) # "half-open") =>
              /\ timers[a] # <<>>
              /\ timers'[a] = Tail(timers[a])
              /\ now >= Head(timers[a])]_vars

(***************************************************************************)
(* C35: the hysteresis of the flow controller.                             *)
(***************************************************************************)

C35_WitnessResumed ==
    /\ ~paused
    /\ fcLast.op = "write"
    /\ bufferSize > 2097152
    /\ bufferSize < 8388608

(***************************************************************************)
(* C36: the fallback agent.                                                *)
(***************************************************************************)

\* C36: findAlternativeAgent(task, excludeId) never returns excludeId; it returns, with
\* confidence 0.5 whatever the agent would score, the first agent in directory order,
\* other than excludeId, that is online, has a reputation above 0.3 and the required type
\* and capability, and it returns none when there is no such agent.
C36_FirstOtherEligibleAgent ==
    [][fallback' # fallback =>
          LET task == fallback'.task
              others == {i \in Survivors(task) : agents[i].id # fallback'.excludeAgentId}
              first == CHOOSE i \in others : \A j \in others : i <= j
          IN  /\ fallback'.decision.agentId # fallback'.excludeAgentId
              /\ IF others = {}
                    THEN fallback'.decision = NoDecision
                    ELSE fallback'.decision =
                             [taskId |-> task.id, agentId |-> agents[first].id,
                              confidence |-> 500]]_vars

\* C36: the first agent of the directory is the excluded one and is eligible, and the
\* call returned the second
C36_Witness ==
    /\ Len(agents) = 2
    /\ Survivors(fallback.task) = {1, 2}
    /\ fallback.excludeAgentId = agents[1].id
    /\ fallback.decision.agentId = agents[2].id
    /\ fallback.decision.confidence = 500

\* C36: nobody in the directory is excluded, and the call returned the first of two
\* eligible agents
C36_WitnessFirst ==
    /\ Len(agents) = 2
    /\ Survivors(fallback.task) = {1, 2}
    /\ fallback.excludeAgentId = "a9"
    /\ fallback.decision.agentId = agents[1].id

\* C36: the only eligible agent is the excluded one, and the call returned none
C36_WitnessNone ==
    /\ Survivors(fallback.task) = {1}
    /\ fallback.excludeAgentId = agents[1].id
    /\ fallback.decision = NoDecision

(***************************************************************************)
(* C37: the reputation scores of the directory.                            *)
(***************************************************************************)

\* C37: after any sequence of register, updateReputation and updateStatus calls the
\* reputation score of every registered agent lies in [0, 1], also that of an agent
\* registered with a score outside this range.
C37_RegisteredScoresInRange ==
    \A i \in 1..Len(agents) :
        agents[i].reputationScore >= 0 /\ agents[i].reputationScore <= 1000

\* C37, the part that holds of the code: a score changes, for an agent that stays
\* registered and is not registered anew with that score, only to a value in [0, 1].
C37_UpdatedScoresInRange ==
    [][\A i \in 1..Len(agents) :
          (/\ Len(agents') = Len(agents)
           /\ agents'[i].reputationScore # agents[i].reputationScore
           /\ agents'[i].reputationScore \notin {-200, 1500})
              => (agents'[i].reputationScore >= 0 /\ agents'[i].reputationScore <= 1000)]_vars

(***************************************************************************)
(* C38: the reads of the reputation tracker.                               *)
(***************************************************************************)

\* C38: getScore, shouldQuarantine and getReputation leave the records as they are: a
\* read of an agent without a record creates none, so that a later initializeAgent(id, s)
\* still stores the clamped s.
C38_ReadsLeaveRecordsUnchanged ==
    [][/\ repLast'.op \in {"getScore", "shouldQuarantine", "getReputation"} =>
              reputation' = reputation
       /\ (repLast'.op = "initializeAgent" /\ repLast'.agent \notin DOMAIN reputation) =>
              (/\ repLast'.agent \in DOMAIN reputation'
               /\ reputation'[repLast'.agent].score = Max(0, Min(1000, repLast'.arg)))]_vars

\* C38, the part that holds of the code: getReputation leaves the records as they are
\* and returns none for an agent without a record, and initializeAgent on an agent that
\* has a record changes nothing.
C38_GetReputationAndInitializeKeepRecords ==
    [][/\ repLast'.op = "getReputation" =>
              /\ reputation' = reputation
              /\ repLast'.arg = -1 <=> repLast'.agent \notin DOMAIN reputation
       /\ (repLast'.op = "initializeAgent" /\ repLast'.agent \in DOMAIN reputation) =>
              reputation' = reputation]_vars

\* C38: initializeAgent(id, s) after a read created the record of id: the record keeps the
\* default score, not the clamped s
C38_InitializeAfterReadIsLost ==
    /\ repLast.op = "initializeAgent"
    /\ ~repLast.fresh
    /\ repLast.arg = 250
    /\ reputation[repLast.agent] = [score |-> 1000, successCount |-> 0, failureCount |-> 0]

(***************************************************************************)
(* C40: the route stored by addRoute.                                      *)
(***************************************************************************)

\* C40: right after addRoute(dest, nextHop, d) for a destination other than the node
\* itself the table holds a route to dest that is not expired and has a distance of at
\* most d, which is what getRoute(dest) then returns; also when the table held an
\* expired entry for dest before the call.
C40_AddRouteLeavesLiveRoute ==
    [][(rtLast'.op = "addRoute" /\ now' = now /\ rtLast'.destination # nodeId) =>
          LET dest == rtLast'.destination IN
          /\ dest \in DOMAIN routes'
          /\ now - routes'[dest].timestamp <= ttl
          /\ routes'[dest].distance <= rtLast'.distance]_vars

\* C40, the part that holds of the code: the same, for a table that holds no expired
\* entry for dest before the call.
C40_AddRouteLeavesLiveRouteWhenNoneExpired ==
    [][(/\ rtLast'.op = "addRoute" /\ now' = now /\ rtLast'.destination # nodeId
        /\ rtLast'.destination \in DOMAIN routes => ~isExpired(routes[rtLast'.destination])) =>
          LET dest == rtLast'.destination IN
          /\ dest \in DOMAIN routes'
          /\ now - routes'[dest].timestamp <= ttl
          /\ routes'[dest].distance <= rtLast'.distance]_vars

\* C40: getRoute right after an addRoute for the same destination returns a route when
\* the table holds one that is not expired
C40_GetRouteReturnsLiveStoredRoute ==
    [][(/\ rtLast.op = "addRoute" /\ rtLast.destination # nodeId
        /\ rtLast'.op = "getRoute" /\ rtLast'.destination = rtLast.destination
        /\ now' = now /\ now - routes[rtLast.destination].timestamp <= ttl)
          => rtResult' # {}]_vars

(***************************************************************************)
(* C39: getConnection calls in flight for the same peer.                   *)
(***************************************************************************)

\* the handle is in the pool's Map
Tracked(handle) == \E r \in DOMAIN connections : connections[r] = handle

\* the handle belongs to a getConnection call suspended at connect()
BeingConnected(handle) ==
    \E c \in CallerIds : calls[c].pc = "connecting" /\ calls[c].handle = handle

\* C39: with several getConnection calls for one peer in flight, at most one connection
\* to the peer is created, and no connection is connected that the pool does not track
\* (and so could never close).
C39_OneTrackedConnectionPerPeer ==
    /\ \A h1, h2 \in 1..Len(conns) :
          (/\ isConnected(h1) /\ isConnected(h2)
           /\ conns[h1].remoteId = conns[h2].remoteId) => h1 = h2
    /\ \A h \in 1..Len(conns) : isConnected(h) => (Tracked(h) \/ BeingConnected(h))

\* C39, the part that holds of the code: a getConnection call returns a connected handle
\* that the pool stores for the peer at the moment of the return.
C39_ReturnsTheStoredHandle ==
    [][\A c \in CallerIds :
          (/\ calls'[c] # calls[c]
           /\ calls'[c].op = "getConnection" /\ calls'[c].pc = "returned") =>
              /\ calls'[c].remoteId \in DOMAIN connections'
              /\ connections'[calls'[c].remoteId] = calls'[c].handle
              /\ conns'[calls'[c].handle].state = "connected"]_vars

\* C39: both callers have returned from getConnection for the same peer with different
\* handles, both connected, and the pool stores only the second
C39_FirstConnectionLeaked ==
    /\ \A c \in CallerIds : calls[c].op = "getConnection" /\ calls[c].pc = "returned"
    /\ calls["g1"].remoteId = calls["g2"].remoteId
    /\ calls["g1"].handle # calls["g2"].handle
    /\ isConnected(calls["g1"].handle) /\ isConnected(calls["g2"].handle)
    /\ ~Tracked(calls["g1"].handle)

(***************************************************************************)
(* C31: the periodic background loops.                                     *)
(***************************************************************************)

\* the timers installed for a callback
TimersOf(callback) == {t \in intervals : t.callback = callback}

\* the step is the runtime firing timer t
Fires(t) ==
    /\ t \in intervals
    /\ t \notin intervals'
    /\ healthCheckInterval' = healthCheckInterval
    /\ cleanupInterval' = cleanupInterval

\* a start while the loop runs installs no second timer, and a pass starts only from
\* the timer its owner holds, so none starts after stop
OneTimerStoppedByStop ==
    /\ [](/\ Cardinality(TimersOf("performHealthChecks")) <= 1
          /\ Cardinality(TimersOf("cleanupIdleConnections")) <= 1)
    /\ [][\A t \in intervals :
             Fires(t) => \/ t.callback = "performHealthChecks" /\ t.id = healthCheckInterval
                         \/ t.callback = "cleanupIdleConnections" /\ t.id = cleanupInterval]_vars

\* C31: each periodic loop (the pool's idle sweep, the agent health check) is cancelable
\* and never runs concurrently with itself: a second start while it runs installs no
\* second timer, no pass starts after stop, and a tick never begins while the pass of
\* the previous tick is still in progress.
C31_LoopsNeverOverlapAndCancel ==
    /\ OneTimerStoppedByStop
    /\ [](Len(passes) <= 1)

\* C31, the part that holds of the code: one timer per loop, and no pass after stop.
C31_OneTimerAndNoPassAfterStop ==
    /\ OneTimerStoppedByStop
    /\ [](healthCheckInterval = NoInterval => TimersOf("performHealthChecks") = {})
    /\ [](cleanupInterval = NoInterval => TimersOf("cleanupIdleConnections") = {})

\* C31: two health check passes in progress, the first still at the agent it started with
C31_PassesOverlap ==
    /\ Len(passes) = 2
    /\ passes[1].pos = 1

\* C31: the idle sweep has closed a connection
C31_SweepClosedIdleConnection ==
    /\ cleanupInterval # NoInterval
    /\ Len(conns) >= 1
    /\ ~isConnected(1)
    /\ connections = [r \in {} |-> NoHandle]

=============================================================================
